---------------------------- MODULE Spec2Model ----------------------------
(***************************************************************************)
(* A model of the text-masking pipeline of                                 *)
(* ModuleFolders/TextProcessor/TextProcessor.py (class TextProcessor).     *)
(*                                                                         *)
(* A text is a sequence of characters.  A character is a TLA+ string: the  *)
(* ASCII characters stand for themselves, the others have a name:          *)
(*   "LF" U+000A, "CR" U+000D, "IDSP" U+3000 (ideographic space),          *)
(*   "KA" a kana/kanji letter, "JLB" U+3010, "JRB" U+3011 (the lenticular  *)
(*   brackets of the digital-sequence codec), "FLP" U+FF08, "FRP" U+FF09   *)
(*   (the full-width parentheses), "DN" U+2193 (the sakura placeholder     *)
(*   glyph).                                                               *)
(***************************************************************************)
EXTENDS Integers, Sequences, FiniteSets, TLC

LF == "LF"
CR == "CR"
IDSP == "IDSP"
KA == "KA"
JLB == "JLB"
JRB == "JRB"
FLP == "FLP"
FRP == "FRP"
DN == "DN"

\* str.isspace / the regex class \s
IsSpace(c) == c \in {" ", LF, CR, IDSP}

\* the regex class \d / str.isdigit on one character
IsDigit(c) == c \in {"0", "1", "2", "3", "4", "5", "6", "7", "8", "9"}

\* membership in JAPANESE_CHAR_SET_CONTENT
IsJapaneseChar(c) == c \in {KA, JLB, JRB, FLP, FRP}

\* str.lower on one character (the letters the model's texts use)
Lower(c) == IF c = "B" THEN "b" ELSE IF c = "R" THEN "r" ELSE c

(***************************************************************************)
(* Python string primitives.                                               *)
(***************************************************************************)
Min(S) == CHOOSE x \in S : \A y \in S : x <= y
Max(S) == CHOOSE x \in S : \A y \in S : x >= y

\* s[:n] and s[n:]
Take(s, n) == SubSeq(s, 1, n)
Drop(s, n) == SubSeq(s, n + 1, Len(s))

\* p occurs in s at (1-based) position i
HasAt(s, i, p) == i >= 1 /\ i + Len(p) - 1 <= Len(s) /\ SubSeq(s, i, i + Len(p) - 1) = p

\* str.find(p, from): the first position >= from where p occurs, 0 when none
Find(s, p, from) ==
    LET C == {i \in from..(Len(s) - Len(p) + 1) : HasAt(s, i, p)}
    IN  IF C = {} THEN 0 ELSE Min(C)

\* p in s
Contains(s, p) == Find(s, p, 1) # 0

\* the number of leading / trailing whitespace characters
LeadWs(s) ==
    LET N == {i \in 1..Len(s) : ~IsSpace(s[i])}
    IN  IF N = {} THEN Len(s) ELSE Min(N) - 1
TrailWs(s) ==
    LET N == {i \in 1..Len(s) : ~IsSpace(s[i])}
    IN  IF N = {} THEN Len(s) ELSE Len(s) - Max(N)

LStrip(s) == Drop(s, LeadWs(s))
RStrip(s) == Take(s, Len(s) - TrailWs(s))
Strip(s) == LStrip(RStrip(s))

\* str.isdigit
IsDigitStr(s) == Len(s) > 0 /\ \A i \in 1..Len(s) : IsDigit(s[i])

\* str.split(sep)
RECURSIVE Split(_, _)
Split(s, sep) ==
    LET i == Find(s, sep, 1)
    IN  IF i = 0 THEN <<s>>
        ELSE <<Take(s, i - 1)>> \o Split(Drop(s, i + Len(sep) - 1), sep)

\* sep.join(parts)
RECURSIVE Join(_, _)
Join(parts, sep) ==
    IF Len(parts) = 0 THEN <<>>
    ELSE IF Len(parts) = 1 THEN parts[1]
    ELSE parts[1] \o sep \o Join(Tail(parts), sep)

\* ''.join(parts)
Concat(parts) == Join(parts, <<>>)

\* str.replace(old, new): every non-overlapping occurrence, left to right
RECURSIVE ReplaceAllOcc(_, _, _)
ReplaceAllOcc(s, old, new) ==
    LET i == Find(s, old, 1)
    IN  IF i = 0 \/ Len(old) = 0 THEN s
        ELSE Take(s, i - 1) \o new \o ReplaceAllOcc(Drop(s, i + Len(old) - 1), old, new)

\* str.replace(old, new, 1)
ReplaceFirst(s, old, new) ==
    LET i == Find(s, old, 1)
    IN  IF i = 0 THEN s ELSE Take(s, i - 1) \o new \o Drop(s, i + Len(old) - 1)

(***************************************************************************)
(* TagCodec: comments, tag detection, single-tag and multi-tag extraction  *)
(* and restoration.                                                        *)
(***************************************************************************)
NoInfo == [type |-> "none"]

\* one line of _remove_comments: line.split('//')[0] when '//' is in the line
CutLineComment(line) ==
    IF Contains(line, <<"/", "/">>) THEN Split(line, <<"/", "/">>)[1] ELSE line

\* re.sub(r'/\*.*?\*/', '', s, flags=re.DOTALL)
RECURSIVE RemoveBlockComments(_)
RemoveBlockComments(s) ==
    LET i == Find(s, <<"/", "*">>, 1)
    IN  IF i = 0 THEN s
        ELSE LET j == Find(s, <<"*", "/">>, i + 2)
             IN  IF j = 0 THEN s
                 ELSE Take(s, i - 1) \o RemoveBlockComments(Drop(s, j + 1))

_remove_comments(text) ==
    LET lines == Split(text, <<LF>>)
        cleaned == [i \in 1..Len(lines) |-> CutLineComment(lines[i])]
    IN  RemoveBlockComments(Join(cleaned, <<LF>>))

\* RE_MULTI_TAG_PATTERN.finditer(s): the matches of (<[^>]+>) from position
\* `from` on, each as [start, end] (1-based, inclusive)
RECURSIVE TagMatchesFrom(_, _)
TagMatchesFrom(s, from) ==
    LET opens == {i \in from..Len(s) :
                    /\ s[i] = "<"
                    /\ i + 1 <= Len(s)
                    /\ s[i + 1] # ">"
                    /\ \E j \in (i + 2)..Len(s) : s[j] = ">"}
    IN  IF opens = {} THEN <<>>
        ELSE LET i == Min(opens)
                 j == Min({k \in (i + 2)..Len(s) : s[k] = ">"})
             IN  <<[start |-> i, end |-> j]>> \o TagMatchesFrom(s, j + 1)

TagMatches(s) == TagMatchesFrom(s, 1)

\* the position of the first ':' or '>' after the first character, 0 when none
FirstColonOrGt(t) ==
    LET C == {i \in 2..Len(t) : t[i] \in {":", ">"}}
    IN  IF C = {} THEN 0 ELSE Min(C)

\* where a final (>)$ can match without re.MULTILINE: the last character, or
\* the one before a final line feed; 0 when neither is '>'
FinalGt(t) ==
    IF Len(t) >= 1 /\ t[Len(t)] = ">" THEN Len(t)
    ELSE IF Len(t) >= 2 /\ t[Len(t)] = LF /\ t[Len(t) - 1] = ">" THEN Len(t) - 1
    ELSE 0

\* RE_COLON_TAG_PATTERN.match(t): ^(<[^:>]+:)(.*?)(>)$ with re.DOTALL
ColonTagMatches(t) ==
    /\ Len(t) >= 1
    /\ t[1] = "<"
    /\ FirstColonOrGt(t) >= 3
    /\ t[FirstColonOrGt(t)] = ":"
    /\ FinalGt(t) > FirstColonOrGt(t)
ColonTagPrefix(t) == Take(t, FirstColonOrGt(t))
ColonTagContent(t) == SubSeq(t, FirstColonOrGt(t) + 1, FinalGt(t) - 1)

\* RE_SIMPLE_TAG_PATTERN.match(t): ^(<[^:>]+>)$
SimpleTagMatches(t) ==
    /\ Len(t) >= 1
    /\ t[1] = "<"
    /\ FirstColonOrGt(t) >= 3
    /\ t[FirstColonOrGt(t)] = ">"
    /\ FinalGt(t) = FirstColonOrGt(t)
SimpleTagFull(t) == Take(t, FirstColonOrGt(t))

_is_single_tag_only(text0) ==
    LET text == IF \/ Contains(text0, <<"/", "/">>)
                   \/ Contains(text0, <<"#">>)
                   \/ Contains(text0, <<"/", "*">>)
                THEN _remove_comments(text0) ELSE text0
    IN  \E text_stripped \in {Strip(text)} :
        \E matches \in {TagMatches(text_stripped)} :
            /\ Len(text_stripped) >= 1
            /\ text_stripped[1] = "<"
            /\ text_stripped[Len(text_stripped)] = ">"
            /\ Len(matches) = 1
            /\ matches[1].start = 1
            /\ matches[1].end = Len(text_stripped)

\* the result is [text |-> payload, info |-> tag_info or NoInfo]
_process_single_tag_content(text) ==
    LET Extract(text_without_comments, text_stripped) ==
            LET leading_ws == Take(text_without_comments, LeadWs(text_without_comments))
                trailing_ws ==
                    Drop(text_without_comments, Len(RStrip(text_without_comments)))
            IN  IF ~_is_single_tag_only(text_without_comments)
                THEN [text |-> text, info |-> NoInfo]
                ELSE IF ColonTagMatches(text_stripped)
                THEN LET tag_content == ColonTagContent(text_stripped)
                     IN  [text |-> Strip(tag_content),
                          info |-> [type |-> "single_tag",
                                    tag_type |-> "colon_tag",
                                    tag_prefix |-> ColonTagPrefix(text_stripped),
                                    tag_suffix |-> <<">">>,
                                    leading_whitespace |-> leading_ws,
                                    trailing_whitespace |-> trailing_ws,
                                    content_leading_whitespace |->
                                        Take(tag_content, LeadWs(tag_content)),
                                    content_trailing_whitespace |->
                                        Drop(tag_content, Len(RStrip(tag_content))),
                                    comments_removed |-> TRUE]]
                ELSE IF SimpleTagMatches(text_stripped)
                THEN [text |-> <<>>,
                      info |-> [type |-> "single_tag",
                                tag_type |-> "simple_tag",
                                full_tag |-> SimpleTagFull(text_stripped),
                                leading_whitespace |-> leading_ws,
                                trailing_whitespace |-> trailing_ws,
                                content_leading_whitespace |-> <<>>,
                                content_trailing_whitespace |-> <<>>,
                                comments_removed |-> TRUE]]
                ELSE [text |-> text, info |-> NoInfo]
        Cleaned(text_without_comments) ==
            Extract(text_without_comments, Strip(text_without_comments))
    IN  Cleaned(_remove_comments(text))

_restore_single_tag_content(content, tag_info) ==
    IF tag_info.tag_type = "colon_tag"
    THEN tag_info.leading_whitespace \o tag_info.tag_prefix
         \o tag_info.content_leading_whitespace \o content
         \o tag_info.content_trailing_whitespace \o tag_info.tag_suffix
         \o tag_info.trailing_whitespace
    ELSE IF tag_info.tag_type = "simple_tag"
    THEN tag_info.leading_whitespace \o tag_info.full_tag \o tag_info.trailing_whitespace
    ELSE content

\* the loop of _process_multiple_tags_only over the matches from the i-th on:
\* acc is [last_end, tag_infos, contents, separators].  A tag that is neither a
\* colon-tag nor a simple-tag takes the loop's `continue`: its separator is
\* recorded, the tag is not, and last_end stays where it was.
RECURSIVE ExtractTags(_, _, _, _)
ExtractTags(twc, matches, i, acc) ==
    IF i > Len(matches) THEN acc
    ELSE LET m == matches[i]
             separator == SubSeq(twc, acc.last_end + 1, m.start - 1)
             full_tag == SubSeq(twc, m.start, m.end)
             seps == Append(acc.separators, separator)
         IN  IF ColonTagMatches(full_tag)
             THEN LET tag_content == ColonTagContent(full_tag)
                  IN  ExtractTags(twc, matches, i + 1,
                        [last_end |-> m.end,
                         tag_infos |-> Append(acc.tag_infos,
                            [index |-> i - 1,
                             tag_type |-> "colon_tag",
                             tag_prefix |-> ColonTagPrefix(full_tag),
                             tag_suffix |-> <<">">>,
                             full_tag |-> <<>>,
                             content_leading_whitespace |->
                                 Take(tag_content, LeadWs(tag_content)),
                             content_trailing_whitespace |->
                                 Drop(tag_content, Len(RStrip(tag_content)))]),
                         contents |-> Append(acc.contents, Strip(tag_content)),
                         separators |-> seps])
             ELSE IF SimpleTagMatches(full_tag)
             THEN ExtractTags(twc, matches, i + 1,
                        [last_end |-> m.end,
                         tag_infos |-> Append(acc.tag_infos,
                            [index |-> i - 1,
                             tag_type |-> "simple_tag",
                             tag_prefix |-> <<>>,
                             tag_suffix |-> <<>>,
                             full_tag |-> full_tag,
                             content_leading_whitespace |-> <<>>,
                             content_trailing_whitespace |-> <<>>]),
                         contents |-> Append(acc.contents, <<>>),
                         separators |-> seps])
             ELSE ExtractTags(twc, matches, i + 1, [acc EXCEPT !.separators = seps])

\* the text outside the matches, concatenated (content_between_tags)
RECURSIVE BetweenTags(_, _, _, _)
BetweenTags(twc, matches, i, last_end) ==
    IF i > Len(matches) THEN Drop(twc, last_end)
    ELSE SubSeq(twc, last_end + 1, matches[i].start - 1)
         \o BetweenTags(twc, matches, i + 1, matches[i].end)

\* the text rebuilt from the matches and the text outside them (reconstructed)
RECURSIVE Reconstructed(_, _, _, _)
Reconstructed(twc, matches, i, last_end) ==
    IF i > Len(matches) THEN Drop(twc, last_end)
    ELSE SubSeq(twc, last_end + 1, matches[i].start - 1)
         \o SubSeq(twc, matches[i].start, matches[i].end)
         \o Reconstructed(twc, matches, i + 1, matches[i].end)

\* '\n===TAG_SEPARATOR===\n'
TAG_SEPARATOR ==
    <<LF, "=", "=", "=", "T", "A", "G", "_", "S", "E", "P", "A", "R", "A", "T", "O", "R",
      "=", "=", "=", LF>>

_process_multiple_tags_only(text) ==
    LET Extracted(text_without_comments, r) ==
            [text |-> Join(r.contents, TAG_SEPARATOR),
             info |-> [type |-> "multiple_tags",
                       tag_infos |-> r.tag_infos,
                       separators |->
                           Append(r.separators, Drop(text_without_comments, r.last_end)),
                       tag_count |-> Len(r.tag_infos),
                       comments_removed |-> TRUE]]
        Matched(text_without_comments, matches) ==
            IF Len(matches) < 2 THEN [text |-> text, info |-> NoInfo]
            ELSE IF Reconstructed(text_without_comments, matches, 1, 0)
                    # text_without_comments
            THEN [text |-> text, info |-> NoInfo]
            ELSE IF Len(Strip(BetweenTags(text_without_comments, matches, 1, 0))) > 0
            THEN [text |-> text, info |-> NoInfo]
            ELSE Extracted(text_without_comments,
                           ExtractTags(text_without_comments, matches, 1,
                               [last_end |-> 0, tag_infos |-> <<>>, contents |-> <<>>,
                                separators |-> <<>>]))
        Cleaned(text_without_comments) ==
            Matched(text_without_comments, TagMatches(text_without_comments))
    IN  Cleaned(_remove_comments(text))

\* multi-tag first, then single-tag; `if multi_info:` holds for every dict returned
_process_tag_content(text) ==
    LET Single(single) ==
            IF single.info # NoInfo THEN single ELSE [text |-> text, info |-> NoInfo]
        Multi(multi) ==
            IF multi.info # NoInfo THEN multi
            ELSE Single(_process_single_tag_content(text))
    IN  Multi(_process_multiple_tags_only(text))

\* translated_parts cut to expected_count and not padded
FitPartsNoPadding(parts, expected_count) ==
    [i \in 1..(IF Len(parts) < expected_count THEN Len(parts) ELSE expected_count) |->
        parts[i]]

\* translated_parts padded with '' or cut to expected_count
FitParts(parts, expected_count) ==
    [i \in 1..expected_count |-> IF i <= Len(parts) THEN parts[i] ELSE <<>>]

\* the rebuilding loop of _restore_multiple_tags from the i-th tag on
RECURSIVE RebuildTags(_, _, _, _)
RebuildTags(tag_infos, separators, parts, i) ==
    IF i > Len(tag_infos) THEN <<>>
    ELSE LET tag_info == tag_infos[i]
             restored_tag ==
                 IF tag_info.tag_type = "colon_tag"
                 THEN IF i <= Len(parts)
                      THEN tag_info.tag_prefix \o tag_info.content_leading_whitespace
                           \o parts[i] \o tag_info.content_trailing_whitespace
                           \o tag_info.tag_suffix
                      ELSE tag_info.tag_prefix \o tag_info.tag_suffix
                 ELSE tag_info.full_tag
         IN  restored_tag
             \o (IF i + 1 <= Len(separators) THEN separators[i + 1] ELSE <<>>)
             \o RebuildTags(tag_infos, separators, parts, i + 1)

\* _restore_multiple_tags splitting the payload at every line feed
RestoreMultipleTagsByLine(translated_content, multi_tag_info) ==
    LET translated_parts(split) ==
            IF Len(split) # multi_tag_info.tag_count
            THEN FitParts(split, multi_tag_info.tag_count) ELSE split
    IN  (IF Len(multi_tag_info.separators) > 0 THEN multi_tag_info.separators[1] ELSE <<>>)
        \o RebuildTags(multi_tag_info.tag_infos, multi_tag_info.separators,
                       translated_parts(Split(translated_content, <<LF>>)), 1)

_restore_multiple_tags(translated_content, multi_tag_info) ==
    LET translated_parts(split) ==
            IF Len(split) # multi_tag_info.tag_count
            THEN FitParts(split, multi_tag_info.tag_count) ELSE split
    IN  (IF Len(multi_tag_info.separators) > 0 THEN multi_tag_info.separators[1] ELSE <<>>)
        \o RebuildTags(multi_tag_info.tag_infos, multi_tag_info.separators,
                       translated_parts(Split(translated_content, TAG_SEPARATOR)), 1)

_restore_tag_content(content, tag_info) ==
    IF tag_info = NoInfo THEN content
    ELSE IF tag_info.type = "single_tag" THEN _restore_single_tag_content(content, tag_info)
    ELSE IF tag_info.type = "multiple_tags" THEN _restore_multiple_tags(content, tag_info)
    ELSE content

(***************************************************************************)
(* LineAffixNormalizer: line endings, per-line affixes, and the multi-line *)
(* processing that wraps the TagCodec.                                     *)
(***************************************************************************)
\* text[i:i+3].lower() == '<br' at the (1-based) position i
BrAt(text, i) ==
    /\ i + 2 <= Len(text)
    /\ text[i] = "<"
    /\ Lower(text[i + 1]) = "b"
    /\ Lower(text[i + 2]) = "r"

\* the while loop of _normalize_line_endings from position i on, line_pos
\* markers seen so far: [text |-> normalized rest, endings |-> markers of the rest]
RECURSIVE NormalizeFrom(_, _, _)
NormalizeFrom(text, i, line_pos) ==
    IF i > Len(text) THEN [text |-> <<>>, endings |-> <<>>]
    ELSE LET br_end == Find(text, <<">">>, i)
             Marker(m, next) ==
                 LET rest == NormalizeFrom(text, next, line_pos + 1)
                 IN  [text |-> <<LF>> \o rest.text,
                      endings |-> <<[pos |-> line_pos, marker |-> m]>> \o rest.endings]
         IN  IF BrAt(text, i) /\ br_end # 0
             THEN Marker(SubSeq(text, i, br_end), br_end + 1)
             ELSE IF i < Len(text) /\ text[i] = CR /\ text[i + 1] = LF
             THEN Marker(<<CR, LF>>, i + 2)
             ELSE IF text[i] = CR THEN Marker(<<CR>>, i + 1)
             ELSE IF text[i] = LF THEN Marker(<<LF>>, i + 1)
             ELSE LET rest == NormalizeFrom(text, i + 1, line_pos)
                  IN  [text |-> <<text[i]>> \o rest.text, endings |-> rest.endings]

_normalize_line_endings(text) ==
    IF ~(\/ \E i \in 1..Len(text) : text[i] \in {CR, LF}
         \/ \E i \in 1..Len(text) : BrAt(text, i))
    THEN [text |-> text, endings |-> <<>>]
    ELSE NormalizeFrom(text, 1, 0)

\* _restore_line_endings writing every recorded line break as a line feed
RestoreLineEndingsAsLF(text, line_endings) ==
    LET Rejoined(lines) ==
            IF Len(lines) <= 1 THEN text
            ELSE Concat([i \in 1..(Len(lines) - 1) |-> lines[i] \o <<LF>>])
                 \o lines[Len(lines)]
    IN  IF Len(line_endings) = 0 THEN text ELSE Rejoined(Split(text, <<LF>>))

_restore_line_endings(text, line_endings) ==
    LET Rejoined(lines) ==
            IF Len(lines) <= 1 THEN text
            ELSE Concat([i \in 1..(Len(lines) - 1) |->
                            lines[i] \o (IF i <= Len(line_endings)
                                         THEN line_endings[i].marker ELSE <<LF>>)])
                 \o lines[Len(lines)]
    IN  IF Len(line_endings) = 0 THEN text ELSE Rejoined(Split(text, <<LF>>))

\* the result is [prefix, core, suffix]
_handle_special_characters(prefix0, core0, suffix0) ==
    LET opening == {"[", "{", FLP, "("}
        closing == {"]", "}", FRP, ")"}
        foldP == Len(prefix0) > 0 /\ prefix0[Len(prefix0)] \in opening
        prefix == IF foldP THEN Take(prefix0, Len(prefix0) - 1) ELSE prefix0
        core1 == IF foldP THEN <<prefix0[Len(prefix0)]>> \o core0 ELSE core0
        foldS == Len(suffix0) > 0 /\ suffix0[1] \in closing
        suffix1 == IF foldS THEN Tail(suffix0) ELSE suffix0
        core2 == IF foldS THEN core1 \o <<suffix0[1]>> ELSE core1
    IN  IF Len(suffix1) > 0 /\ IsDigitStr(suffix1)
        THEN [prefix |-> prefix, core |-> core2 \o suffix1, suffix |-> <<>>]
        ELSE [prefix |-> prefix, core |-> core2, suffix |-> suffix1]

\* the characters the boundary pattern puts in the affixes: RE_JA_AFFIX
\* ([^ja]*) for 'ja' / 'japanese', RE_WHITESPACE_AFFIX (\s*) otherwise
IsAffixChar(source_lang, c) ==
    IF source_lang \in {"ja", "japanese"} THEN ~IsJapaneseChar(c) ELSE IsSpace(c)

\* pattern.match(line) on a line without line feed: group 1 the longest run of
\* affix characters at the start, group 3 the longest such run at the end of
\* what is left, group 2 the rest
AffixMatch(line, source_lang) ==
    LET N == {i \in 1..Len(line) : ~IsAffixChar(source_lang, line[i])}
    IN  IF N = {} THEN [prefix |-> line, core |-> <<>>, suffix |-> <<>>]
        ELSE [prefix |-> Take(line, Min(N) - 1),
              core |-> SubSeq(line, Min(N), Max(N)),
              suffix |-> Drop(line, Max(N))]

\* the same body without the rule that keeps the core from being empty
ProcessLineNoGuard(line, source_lang) ==
    LET DigitSuffix(b) ==
            LET suffix_trailing == Drop(b.suffix, Len(RStrip(b.suffix)))
            IN  IF IsDigitStr(Strip(b.suffix))
                THEN [prefix |-> b.prefix,
                      core |-> b.core
                               \o Take(b.suffix, Len(b.suffix) - Len(suffix_trailing)),
                      suffix |-> suffix_trailing]
                ELSE b
        DigitPrefix(a) ==
            LET prefix_leading == Take(a.prefix, LeadWs(a.prefix))
            IN  DigitSuffix(IF IsDigitStr(Strip(a.prefix))
                            THEN [prefix |-> prefix_leading,
                                  core |-> Drop(a.prefix, Len(prefix_leading)) \o a.core,
                                  suffix |-> a.suffix]
                            ELSE a)
        Matched(m) == DigitPrefix(_handle_special_characters(m.prefix, m.core, m.suffix))
    IN  Matched(AffixMatch(line, source_lang))

\* the body of the loop of _process_multiline_text for one non-blank line:
\* [prefix, core, suffix]
ProcessLine(line, source_lang) ==
    LET DigitSuffix(b) ==
            LET suffix_trailing == Drop(b.suffix, Len(RStrip(b.suffix)))
            IN  IF IsDigitStr(Strip(b.suffix))
                THEN [prefix |-> b.prefix,
                      core |-> b.core
                               \o Take(b.suffix, Len(b.suffix) - Len(suffix_trailing)),
                      suffix |-> suffix_trailing]
                ELSE b
        DigitPrefix(a) ==
            LET prefix_leading == Take(a.prefix, LeadWs(a.prefix))
            IN  DigitSuffix(IF IsDigitStr(Strip(a.prefix))
                            THEN [prefix |-> prefix_leading,
                                  core |-> Drop(a.prefix, Len(prefix_leading)) \o a.core,
                                  suffix |-> a.suffix]
                            ELSE a)
        Handled(h) ==
            DigitPrefix(IF Len(Strip(h.core)) = 0 /\ Len(Strip(line)) > 0
                        THEN [prefix |-> <<>>, core |-> line, suffix |-> <<>>] ELSE h)
        Matched(m) == Handled(_handle_special_characters(m.prefix, m.core, m.suffix))
    IN  Matched(AffixMatch(line, source_lang))

IsBlankLine(line) == Len(line) = 0 \/ Len(Strip(line)) = 0

LineInfo(line, source_lang) ==
    LET Affixes(p) == [prefix |-> p.prefix, suffix |-> p.suffix,
                       is_empty |-> FALSE, original_whitespace |-> <<>>]
    IN  IF IsBlankLine(line)
        THEN [prefix |-> <<>>, suffix |-> <<>>, is_empty |-> TRUE,
              original_whitespace |-> line]
        ELSE Affixes(ProcessLine(line, source_lang))

\* the cores of the non-blank lines from the i-th on (non_empty_lines)
RECURSIVE NonEmptyCores(_, _, _)
NonEmptyCores(lines, i, source_lang) ==
    IF i > Len(lines) THEN <<>>
    ELSE (IF IsBlankLine(lines[i]) THEN <<>>
          ELSE <<ProcessLine(lines[i], source_lang).core>>)
         \o NonEmptyCores(lines, i + 1, source_lang)

\* the result is [text |-> payload, info |-> the processing record of the text]
_process_multiline_text(text, source_lang) ==
    LET Lines(tag, norm, lines) ==
            [text |-> Join(NonEmptyCores(lines, 1, source_lang), <<LF>>),
             info |-> [type |-> IF tag.info # NoInfo THEN "multiline_with_tag"
                                ELSE "multiline",
                       line_endings |-> norm.endings,
                       lines_info |->
                           [i \in 1..Len(lines) |-> LineInfo(lines[i], source_lang)],
                       tag_info |-> tag.info]]
        Normalized(tag, norm) == Lines(tag, norm, Split(norm.text, <<LF>>))
        Tagged(tag) == Normalized(tag, _normalize_line_endings(tag.text))
    IN  Tagged(_process_tag_content(text))

\* the same loop with translated_index advanced at every line slot
RECURSIVE RestoredLinesByPosition(_, _, _, _)
RestoredLinesByPosition(lines_info, translated_lines, i, translated_index) ==
    IF i > Len(lines_info) THEN <<>>
    ELSE (IF lines_info[i].is_empty
          THEN <<lines_info[i].original_whitespace>>
          ELSE IF translated_index <= Len(translated_lines)
          THEN <<lines_info[i].prefix \o translated_lines[translated_index]
                 \o lines_info[i].suffix>>
          ELSE <<<<>>>>)
         \o RestoredLinesByPosition(lines_info, translated_lines, i + 1,
                                    translated_index + 1)

\* the loop of _restore_multiline_text from the i-th line slot on
RECURSIVE RestoredLines(_, _, _, _)
RestoredLines(lines_info, translated_lines, i, translated_index) ==
    IF i > Len(lines_info) THEN <<>>
    ELSE IF lines_info[i].is_empty
    THEN <<lines_info[i].original_whitespace>>
         \o RestoredLines(lines_info, translated_lines, i + 1, translated_index)
    ELSE IF translated_index <= Len(translated_lines)
    THEN <<lines_info[i].prefix \o translated_lines[translated_index] \o lines_info[i].suffix>>
         \o RestoredLines(lines_info, translated_lines, i + 1, translated_index + 1)
    ELSE <<<<>>>> \o RestoredLines(lines_info, translated_lines, i + 1, translated_index)

\* the first step of _restore_multiline_text: multiline_restored, the lines
\* and their line breaks before the tags are restored
MultilineRestored(text, info) ==
    _restore_line_endings(
        Join(RestoredLines(info.lines_info, Split(text, <<LF>>), 1, 1), <<LF>>),
        info.line_endings)

_restore_multiline_text(text, info) ==
    LET Tagged(multiline_restored) ==
            IF info.tag_info # NoInfo
            THEN _restore_tag_content(multiline_restored, info.tag_info)
            ELSE multiline_restored
    IN  Tagged(MultilineRestored(text, info))

(***************************************************************************)
(* Compiled masking patterns.  auto_compiled_patterns holds each pattern   *)
(* string p of the library and of the exclusion list as \s*p\s*, compiled  *)
(* with re.IGNORECASE | re.MULTILINE.  The model's pattern strings are     *)
(*   [kind |-> "lit", ch |-> c]   a literal marker character c (escaped),  *)
(*   [kind |-> "digits"]          the regex \d+,                           *)
(*   [kind |-> "star", ch |-> c]  the regex c*, which also matches the     *)
(*                                empty string,                            *)
(*   [kind |-> "space"]           the regex \s+.                           *)
(***************************************************************************)
\* the length of the longest run of whitespace / of digits starting at i
RECURSIVE WsRun(_, _)
WsRun(s, i) == IF i <= Len(s) /\ IsSpace(s[i]) THEN 1 + WsRun(s, i + 1) ELSE 0
RECURSIVE DigitRun(_, _)
DigitRun(s, i) == IF i <= Len(s) /\ IsDigit(s[i]) THEN 1 + DigitRun(s, i + 1) ELSE 0

\* the length of the longest run of the character c (any case) starting at i
RECURSIVE CharRun(_, _, _)
CharRun(s, i, c) ==
    IF i <= Len(s) /\ Lower(s[i]) = Lower(c) THEN 1 + CharRun(s, i + 1, c) ELSE 0

\* the length of the match of \s*p\s* that starts at position i, -1 when the
\* pattern does not match there
MatchLen(pat, s, i) ==
    LET k == WsRun(s, i)
        j == i + k
    IN  IF pat.kind = "lit"
        THEN IF j <= Len(s) /\ Lower(s[j]) = Lower(pat.ch)
             THEN k + 1 + WsRun(s, j + 1) ELSE -1
        ELSE IF pat.kind = "star"
        THEN k + CharRun(s, j, pat.ch) + WsRun(s, j + CharRun(s, j, pat.ch))
        ELSE IF pat.kind = "space"
        THEN IF k > 0 THEN k ELSE -1
        ELSE IF DigitRun(s, j) > 0
             THEN k + DigitRun(s, j) + WsRun(s, j + DigitRun(s, j)) ELSE -1

\* pattern_obj.finditer(s): the non-overlapping matches from position i on,
\* leftmost first, each as [start, len]
RECURSIVE FindIter(_, _, _)
FindIter(pat, s, i) ==
    IF i > Len(s) + 1 THEN <<>>
    ELSE LET l == MatchLen(pat, s, i)
         IN  IF l < 0 THEN FindIter(pat, s, i + 1)
             ELSE IF l = 0 THEN <<[start |-> i, len |-> 0]>> \o FindIter(pat, s, i + 1)
             ELSE <<[start |-> i, len |-> l]>> \o FindIter(pat, s, i + l)

(***************************************************************************)
(* AffixCodec: _process_affixes and _restore_affixes.                      *)
(***************************************************************************)
\* the prefix loops from the pi-th pattern on: [text, codes, diverged].  A
\* match object is true also when it matched the empty string: the while loop
\* then appends the empty prefix and finds the same match on the same text,
\* again and again (diverged).
RECURSIVE StripPrefixes(_, _, _, _)
StripPrefixes(current_text, patterns, pi, current_prefixes) ==
    IF pi > Len(patterns)
    THEN [text |-> current_text, codes |-> current_prefixes, diverged |-> FALSE]
    ELSE LET l == MatchLen(patterns[pi], current_text, 1)
         IN  IF l = 0
             THEN [text |-> current_text, codes |-> current_prefixes, diverged |-> TRUE]
             ELSE IF l > 0
             THEN StripPrefixes(Drop(current_text, l), patterns, pi,
                    Append(current_prefixes,
                           [prefix |-> Take(current_text, l), pattern |-> patterns[pi]]))
             ELSE StripPrefixes(current_text, patterns, pi + 1, current_prefixes)

\* best_match: the last match of finditer that ends at the end of the text,
\* as a sequence of at most one element
BestMatch(pat, current_text) ==
    LET Last(ms) ==
            LET C == {i \in 1..Len(ms) : ms[i].start + ms[i].len - 1 = Len(current_text)}
            IN  IF C = {} THEN <<>> ELSE <<ms[Max(C)]>>
    IN  Last(FindIter(pat, current_text, 1))

\* the suffix loops from the pi-th pattern on: [text, codes, diverged].  An
\* empty best_match leaves the text as it is and sets made_change, so that
\* the while loop never ends (diverged).
RECURSIVE StripSuffixes(_, _, _, _)
StripSuffixes(current_text, patterns, pi, current_suffixes) ==
    IF pi > Len(patterns)
    THEN [text |-> current_text, codes |-> current_suffixes, diverged |-> FALSE]
    ELSE LET Matched(best) ==
                 IF Len(best) > 0 /\ best[1].len = 0
                 THEN [text |-> current_text, codes |-> current_suffixes,
                       diverged |-> TRUE]
                 ELSE IF Len(best) > 0
                 THEN StripSuffixes(Take(current_text, best[1].start - 1), patterns, pi,
                        <<[suffix |-> Drop(current_text, best[1].start - 1),
                           pattern |-> patterns[pi]]>> \o current_suffixes)
                 ELSE StripSuffixes(current_text, patterns, pi + 1, current_suffixes)
         IN  Matched(BestMatch(patterns[pi], current_text))

PrefixStr(codes) == Concat([i \in 1..Len(codes) |-> codes[i].prefix])
SuffixStr(codes) == Concat([i \in 1..Len(codes) |-> codes[i].suffix])

\* one entry of _process_affixes with the suffix side undone also when the
\* two sides have the same length
ProcessAffixesEntryTieUndoesSuffix(text_val, compiled_prefix_patterns, compiled_suffix_patterns) ==
    LET Guard(p, s) ==
            LET keepBoth == [text |-> s.text, prefix_codes |-> p.codes,
                             suffix_codes |-> s.codes, diverged |-> FALSE]
                undoSuffix == [text |-> s.text \o SuffixStr(s.codes),
                               prefix_codes |-> p.codes, suffix_codes |-> <<>>,
                               diverged |-> FALSE]
                undoPrefix == [text |-> PrefixStr(p.codes) \o s.text,
                               prefix_codes |-> <<>>, suffix_codes |-> s.codes,
                               diverged |-> FALSE]
            IN  IF s.diverged
                THEN [text |-> s.text, prefix_codes |-> p.codes,
                      suffix_codes |-> s.codes, diverged |-> TRUE]
                ELSE IF Len(Strip(s.text)) > 0 THEN keepBoth
                ELSE IF Len(p.codes) > 0 /\ Len(s.codes) > 0
                THEN IF Len(PrefixStr(p.codes)) >= Len(SuffixStr(s.codes))
                     THEN undoSuffix ELSE undoPrefix
                ELSE IF Len(p.codes) > 0 THEN undoPrefix
                ELSE IF Len(s.codes) > 0 THEN undoSuffix
                ELSE keepBoth
        Suffixes(p) ==
            IF p.diverged
            THEN [text |-> p.text, prefix_codes |-> p.codes, suffix_codes |-> <<>>,
                  diverged |-> TRUE]
            ELSE Guard(p, StripSuffixes(p.text, compiled_suffix_patterns, 1, <<>>))
    IN  Suffixes(StripPrefixes(text_val, compiled_prefix_patterns, 1, <<>>))

\* one entry of _process_affixes: [text, prefix_codes, suffix_codes, diverged]
ProcessAffixesEntry(text_val, compiled_prefix_patterns, compiled_suffix_patterns) ==
    LET Guard(p, s) ==
            LET keepBoth == [text |-> s.text, prefix_codes |-> p.codes,
                             suffix_codes |-> s.codes, diverged |-> FALSE]
                undoSuffix == [text |-> s.text \o SuffixStr(s.codes),
                               prefix_codes |-> p.codes, suffix_codes |-> <<>>,
                               diverged |-> FALSE]
                undoPrefix == [text |-> PrefixStr(p.codes) \o s.text,
                               prefix_codes |-> <<>>, suffix_codes |-> s.codes,
                               diverged |-> FALSE]
            IN  IF s.diverged
                THEN [text |-> s.text, prefix_codes |-> p.codes,
                      suffix_codes |-> s.codes, diverged |-> TRUE]
                ELSE IF Len(Strip(s.text)) > 0 THEN keepBoth
                ELSE IF Len(p.codes) > 0 /\ Len(s.codes) > 0
                THEN IF Len(PrefixStr(p.codes)) > Len(SuffixStr(s.codes))
                     THEN undoSuffix ELSE undoPrefix
                ELSE IF Len(p.codes) > 0 THEN undoPrefix
                ELSE IF Len(s.codes) > 0 THEN undoSuffix
                ELSE keepBoth
        Suffixes(p) ==
            IF p.diverged
            THEN [text |-> p.text, prefix_codes |-> p.codes, suffix_codes |-> <<>>,
                  diverged |-> TRUE]
            ELSE Guard(p, StripSuffixes(p.text, compiled_suffix_patterns, 1, <<>>))
    IN  Suffixes(StripPrefixes(text_val, compiled_prefix_patterns, 1, <<>>))

\* A dict is a sequence of [key, value] entries with distinct keys, in
\* insertion order.
DictKeys(d) == [i \in 1..Len(d) |-> d[i].key]
HasKey(d, key) == \E i \in 1..Len(d) : d[i].key = key
DictGet(d, key) == d[CHOOSE i \in 1..Len(d) : d[i].key = key].value
\* dict.get(key, [])
GetOrEmpty(d, key) == IF HasKey(d, key) THEN DictGet(d, key) ELSE <<>>

\* _process_affixes with records only for the entries that lost a fragment
ProcessAffixesSparseRecords(text_dict, compiled_prefix_patterns, compiled_suffix_patterns) ==
    LET n == Len(text_dict)
        Collected(E) ==
            [diverged |-> \E i \in 1..n : E[i].diverged,
             text_dict |->
                [i \in 1..n |-> [key |-> text_dict[i].key, value |-> E[i].text]],
             prefix_codes |->
                SelectSeq([i \in 1..n |->
                             [key |-> text_dict[i].key, value |-> E[i].prefix_codes]],
                          LAMBDA e : Len(e.value) > 0),
             suffix_codes |->
                SelectSeq([i \in 1..n |->
                             [key |-> text_dict[i].key, value |-> E[i].suffix_codes]],
                          LAMBDA e : Len(e.value) > 0)]
    IN  Collected([i \in 1..n |->
                     ProcessAffixesEntry(text_dict[i].value, compiled_prefix_patterns,
                                         compiled_suffix_patterns)])

\* [text_dict, prefix_codes, suffix_codes, diverged], each dict with the keys
\* of text_dict; the call never returns when the loops of an entry diverge
_process_affixes(text_dict, compiled_prefix_patterns, compiled_suffix_patterns) ==
    LET n == Len(text_dict)
        Collected(E) ==
            [diverged |-> \E i \in 1..n : E[i].diverged,
             text_dict |->
                [i \in 1..n |-> [key |-> text_dict[i].key, value |-> E[i].text]],
             prefix_codes |->
                [i \in 1..n |-> [key |-> text_dict[i].key, value |-> E[i].prefix_codes]],
             suffix_codes |->
                [i \in 1..n |-> [key |-> text_dict[i].key, value |-> E[i].suffix_codes]]]
    IN  Collected([i \in 1..n |->
                     ProcessAffixesEntry(text_dict[i].value, compiled_prefix_patterns,
                                         compiled_suffix_patterns)])

\* _restore_affixes with the recorded fragments joined in reverse order
RestoreAffixesReversed(text_dict, prefix_codes, suffix_codes) ==
    [i \in 1..Len(text_dict) |->
        [key |-> text_dict[i].key,
         value |-> LET p == GetOrEmpty(prefix_codes, text_dict[i].key)
                       q == GetOrEmpty(suffix_codes, text_dict[i].key)
                   IN  PrefixStr([k \in 1..Len(p) |-> p[Len(p) + 1 - k]])
                       \o text_dict[i].value
                       \o SuffixStr([k \in 1..Len(q) |-> q[Len(q) + 1 - k]])]]

_restore_affixes(text_dict, prefix_codes, suffix_codes) ==
    [i \in 1..Len(text_dict) |->
        [key |-> text_dict[i].key,
         value |-> PrefixStr(GetOrEmpty(prefix_codes, text_dict[i].key))
                   \o text_dict[i].value
                   \o SuffixStr(GetOrEmpty(suffix_codes, text_dict[i].key))]]

(***************************************************************************)
(* PlaceholderMasker: _replace_special_placeholders and                    *)
(* _restore_special_placeholders.                                          *)
(***************************************************************************)
\* the cap of replacer_for_this_pattern
MaxPlaceholders == 50

DigitChars == <<"0", "1", "2", "3", "4", "5", "6", "7", "8", "9">>

\* str(n) for n >= 0
RECURSIVE DecStr(_)
DecStr(n) == IF n < 10 THEN <<DigitChars[n + 1]>>
             ELSE DecStr(n \div 10) \o <<DigitChars[(n % 10) + 1]>>

\* "↓" * n
RECURSIVE Glyphs(_)
Glyphs(n) == IF n <= 0 THEN <<>> ELSE <<DN>> \o Glyphs(n - 1)

\* a numbered token that counts the substitutions of the entry
PlaceholderValPerEntry(target_platform, global_match_count, sakura_match_count) ==
    IF target_platform = "sakura" THEN Glyphs(sakura_match_count)
    ELSE <<"[", "P">> \o DecStr(sakura_match_count) \o <<"]">>

\* placeholder_val of replacer_for_this_pattern, after both counters were
\* incremented
PlaceholderVal(target_platform, global_match_count, sakura_match_count) ==
    IF target_platform = "sakura" THEN Glyphs(sakura_match_count)
    ELSE <<"[", "P">> \o DecStr(global_match_count) \o <<"]">>

\* replacer_for_this_pattern without its cap
ReplacerUncapped(target_platform, pat, matched, global_match_count, sakura_match_count) ==
    LET val == PlaceholderVal(target_platform, global_match_count + 1,
                              sakura_match_count + 1)
    IN  [out |-> val,
         recs |-> <<[placeholder |-> val, original |-> matched, pattern |-> pat]>>,
         global |-> global_match_count + 1, sakura |-> sakura_match_count + 1]

\* replacer_for_this_pattern called on one match with the counters as they
\* are: [out |-> the replacement, recs |-> the records appended, global, sakura]
Replacer(target_platform, pat, matched, global_match_count, sakura_match_count) ==
    IF global_match_count >= MaxPlaceholders
    THEN [out |-> matched, recs |-> <<>>,
          global |-> global_match_count, sakura |-> sakura_match_count]
    ELSE LET val == PlaceholderVal(target_platform, global_match_count + 1,
                                   sakura_match_count + 1)
         IN  [out |-> val,
              recs |-> <<[placeholder |-> val, original |-> matched, pattern |-> pat]>>,
              global |-> global_match_count + 1, sakura |-> sakura_match_count + 1]

\* pattern_obj.sub(replacer_for_this_pattern, s) over the matches ms from the
\* mi-th on, pos the first position of s not yet copied:
\* [text, recs, global, sakura]
RECURSIVE SubMatches(_, _, _, _, _, _, _)
SubMatches(target_platform, pat, s, ms, mi, pos, c) ==
    IF mi > Len(ms)
    THEN [text |-> Drop(s, pos - 1), recs |-> <<>>, global |-> c.global, sakura |-> c.sakura]
    ELSE LET m == ms[mi]
             r == Replacer(target_platform, pat, SubSeq(s, m.start, m.start + m.len - 1),
                           c.global, c.sakura)
             rest == SubMatches(target_platform, pat, s, ms, mi + 1, m.start + m.len,
                                [global |-> r.global, sakura |-> r.sakura])
         IN  [text |-> SubSeq(s, pos, m.start - 1) \o r.out \o rest.text,
              recs |-> r.recs \o rest.recs,
              global |-> rest.global, sakura |-> rest.sakura]

\* the pattern loop of one entry from the pi-th pattern on, with its break
\* once the cap is reached: [text, recs, global, sakura]
RECURSIVE MaskEntry(_, _, _, _, _)
MaskEntry(target_platform, current_text, patterns, pi, c) ==
    IF pi > Len(patterns)
    THEN [text |-> current_text, recs |-> <<>>, global |-> c.global, sakura |-> c.sakura]
    ELSE LET Substituted(r) ==
                 IF r.global >= MaxPlaceholders THEN r
                 ELSE LET rest == MaskEntry(target_platform, r.text, patterns, pi + 1,
                                            [global |-> r.global, sakura |-> r.sakura])
                      IN  [text |-> rest.text, recs |-> r.recs \o rest.recs,
                           global |-> rest.global, sakura |-> rest.sakura]
         IN  Substituted(SubMatches(target_platform, patterns[pi], current_text,
                                    FindIter(patterns[pi], current_text, 1), 1, 1, c))

\* the entry loop from the i-th entry on, global_match_count carried from
\* entry to entry and sakura_match_count reset for each:
\* [text_dict, placeholder_order]
RECURSIVE MaskEntries(_, _, _, _, _)
MaskEntries(target_platform, text_dict, patterns, i, global_match_count) ==
    IF i > Len(text_dict) THEN [text_dict |-> <<>>, placeholder_order |-> <<>>]
    ELSE LET Masked(e) ==
                 LET rest == MaskEntries(target_platform, text_dict, patterns, i + 1,
                                         e.global)
                 IN  [text_dict |-> <<[key |-> text_dict[i].key, value |-> e.text]>>
                                    \o rest.text_dict,
                      placeholder_order |->
                          <<[key |-> text_dict[i].key, value |-> e.recs]>>
                          \o rest.placeholder_order]
         IN  Masked(MaskEntry(target_platform, text_dict[i].value, patterns, 1,
                              [global |-> global_match_count, sakura |-> 0]))

_replace_special_placeholders(target_platform, text_dict, compiled_placeholder_patterns) ==
    MaskEntries(target_platform, text_dict, compiled_placeholder_patterns, 1, 0)

\* the same loop over placeholders_for_key as it is, first record first
RECURSIVE UnmaskInArrivalOrder(_, _, _)
UnmaskInArrivalOrder(restored_text, placeholders_for_key, i) ==
    IF i < 1 THEN restored_text
    ELSE LET item == placeholders_for_key[Len(placeholders_for_key) - i + 1]
         IN  UnmaskInArrivalOrder(
                IF Contains(restored_text, item.placeholder)
                THEN ReplaceFirst(restored_text, item.placeholder, item.original)
                ELSE restored_text,
                placeholders_for_key, i - 1)

\* the loop over reversed(placeholders_for_key), from the i-th record down
RECURSIVE UnmaskFrom(_, _, _)
UnmaskFrom(restored_text, placeholders_for_key, i) ==
    IF i < 1 THEN restored_text
    ELSE UnmaskFrom(
            IF Contains(restored_text, placeholders_for_key[i].placeholder)
            THEN ReplaceFirst(restored_text, placeholders_for_key[i].placeholder,
                              placeholders_for_key[i].original)
            ELSE restored_text,
            placeholders_for_key, i - 1)

_restore_special_placeholders(text_dict, placeholder_order) ==
    [i \in 1..Len(text_dict) |->
        [key |-> text_dict[i].key,
         value |-> LET placeholders_for_key == GetOrEmpty(placeholder_order, text_dict[i].key)
                   IN  UnmaskFrom(text_dict[i].value, placeholders_for_key,
                                  Len(placeholders_for_key))]]

(***************************************************************************)
(* DigitalSequenceCodec.                                                   *)
(***************************************************************************)
\* RE_DIGITAL_SEQ_PRE.sub(r'【\1】', text, count=1) with RE ^(\d+)\.
DigitalPre(text) ==
    LET d == DigitRun(text, 1)
    IN  IF d > 0 /\ d + 1 <= Len(text) /\ text[d + 1] = "."
        THEN <<JLB>> \o Take(text, d) \o <<JRB>> \o Drop(text, d + 1)
        ELSE text

\* RE_DIGITAL_SEQ_REC.sub(r'\1.', text, count=1) with RE ^【(\d+)】
DigitalRec(text) ==
    LET d == DigitRun(text, 2)
    IN  IF Len(text) >= 1 /\ text[1] = JLB /\ d > 0 /\ d + 2 <= Len(text)
           /\ text[d + 2] = JRB
        THEN SubSeq(text, 2, d + 1) \o <<".">> \o Drop(text, d + 2)
        ELSE text

digital_sequence_preprocessing(text_dict) ==
    [i \in 1..Len(text_dict) |->
        [key |-> text_dict[i].key, value |-> DigitalPre(text_dict[i].value)]]

digital_sequence_recovery(text_dict) ==
    [i \in 1..Len(text_dict) |->
        [key |-> text_dict[i].key, value |-> DigitalRec(text_dict[i].value)]]

(***************************************************************************)
(* RuleCompiler and the rule-substitution stages.                          *)
(*                                                                         *)
(* A regex string of a rule is [kind |-> "none"] (no "regex" entry),       *)
(* [kind |-> "literal", text |-> t] (a regex without metacharacters, which *)
(* matches the text t) or [kind |-> "malformed"] (a string re.compile      *)
(* rejects with re.error).  A pattern string of the library or of the      *)
(* exclusion list is a masking pattern (kind "lit" or "digits"), or has    *)
(* kind "none" (no "regex" entry) or "malformed".                          *)
(***************************************************************************)
NoRegex == [kind |-> "none", text |-> <<>>]

\* [raised, rules]: re.compile raises on the first malformed regex, and
\* nothing catches it
_compile_translation_rules(rules_data) ==
    [raised |-> \E i \in 1..Len(rules_data) : rules_data[i].regex.kind = "malformed",
     rules |-> [i \in 1..Len(rules_data) |->
                  [src |-> rules_data[i].src, dst |-> rules_data[i].dst,
                   compiled_regex |-> rules_data[i].regex]]]

\* the patterns an exclusion list adds, from its i-th item on
RECURSIVE ExclusionPatterns(_, _)
ExclusionPatterns(exclusion_list_data, i) ==
    IF i > Len(exclusion_list_data) THEN <<>>
    ELSE LET item == exclusion_list_data[i]
         IN  (IF item.regex.kind # "none" THEN <<item.regex>>
              ELSE IF item.markers # "" THEN <<[kind |-> "lit", ch |-> item.markers]>>
              ELSE <<>>)
             \o ExclusionPatterns(exclusion_list_data, i + 1)

\* the items of the library that have a non-empty "regex", from the i-th on
RECURSIVE FilePatterns(_, _)
FilePatterns(data, i) ==
    IF i > Len(data) THEN <<>>
    ELSE (IF data[i].regex.kind # "none" THEN <<data[i].regex>> ELSE <<>>)
         \o FilePatterns(data, i + 1)

\* the patterns of the exclusion list alone when the library cannot be read
PrepareCodePatternStringsFallback(exclusion_list_data, file) ==
    [raised |-> FALSE,
     patterns |-> (IF file.readable THEN FilePatterns(file.data, 1) ELSE <<>>)
                  \o ExclusionPatterns(exclusion_list_data, 1)]

\* [raised, patterns]: open() raises when the library file cannot be read
_prepare_code_pattern_strings(exclusion_list_data, file) ==
    [raised |-> ~file.readable,
     patterns |-> FilePatterns(file.data, 1) \o ExclusionPatterns(exclusion_list_data, 1)]

\* __init__: [raised, pre_translation_rules_compiled,
\* post_translation_rules_compiled, auto_compiled_patterns]
Constructed(cfg, file) ==
    LET pre == _compile_translation_rules(cfg.pre_translation_data)
        post == _compile_translation_rules(cfg.post_translation_data)
        code == _prepare_code_pattern_strings(cfg.exclusion_list_data, file)
        badPattern == \E i \in 1..Len(code.patterns) : code.patterns[i].kind = "malformed"
    IN  [raised |-> pre.raised \/ post.raised \/ code.raised \/ badPattern,
         pre_translation_rules_compiled |-> pre.rules,
         post_translation_rules_compiled |-> post.rules,
         auto_compiled_patterns |-> code.patterns]

\* the rule loop of replace_before_translation / replace_after_translation
\* on one text, from the i-th rule on
RECURSIVE ApplyRules(_, _, _)
ApplyRules(current_text, rules, i) ==
    IF i > Len(rules) THEN current_text
    ELSE LET rule == rules[i]
         IN  ApplyRules(
                IF rule.compiled_regex.kind = "literal"
                THEN ReplaceAllOcc(current_text, rule.compiled_regex.text, rule.dst)
                ELSE IF Len(rule.src) > 0 /\ Contains(current_text, rule.src)
                THEN ReplaceAllOcc(current_text, rule.src, rule.dst)
                ELSE current_text,
                rules, i + 1)

replace_before_translation(text_dict, pre_translation_rules_compiled) ==
    [i \in 1..Len(text_dict) |->
        [key |-> text_dict[i].key,
         value |-> ApplyRules(text_dict[i].value, pre_translation_rules_compiled, 1)]]

replace_after_translation(text_dict, post_translation_rules_compiled) ==
    [i \in 1..Len(text_dict) |->
        [key |-> text_dict[i].key,
         value |-> ApplyRules(text_dict[i].value, post_translation_rules_compiled, 1)]]

(***************************************************************************)
(* The whitespace / line / tag stage over a batch.                         *)
(***************************************************************************)
\* [text_dict, processing_info]
strip_and_record_affixes(text_dict, source_lang) ==
    LET Collected(r) ==
            [text_dict |->
                [i \in 1..Len(text_dict) |->
                    [key |-> text_dict[i].key, value |-> r[i].text]],
             processing_info |->
                [i \in 1..Len(text_dict) |->
                    [key |-> text_dict[i].key, value |-> r[i].info]]]
    IN  Collected([i \in 1..Len(text_dict) |->
                     _process_multiline_text(text_dict[i].value, source_lang)])

restore_affix_whitespace(processing_info, processed_dict) ==
    [i \in 1..Len(processed_dict) |->
        [key |-> processed_dict[i].key,
         value |-> IF HasKey(processing_info, processed_dict[i].key)
                   THEN _restore_multiline_text(processed_dict[i].value,
                            DictGet(processing_info, processed_dict[i].key))
                   ELSE processed_dict[i].value]]

(***************************************************************************)
(* PipelineOrchestrator: the order in which replace_all and restore_all    *)
(* run their stages.  "call" is the entry of the method.                   *)
(***************************************************************************)
\* replace_all with the auto-processing stages run whatever the switch says
ReplaceAllNextAlwaysAuto(stage, cfg) ==
    CASE stage = "call" ->
            IF cfg.pre_translation_switch THEN "replace_before_translation"
            ELSE "strip_and_record_affixes"
      [] stage = "replace_before_translation" -> "strip_and_record_affixes"
      [] stage = "strip_and_record_affixes" -> "process_affixes"
      [] stage = "process_affixes" -> "replace_special_placeholders"
      [] stage = "replace_special_placeholders" -> "digital_sequence_preprocessing"
      [] OTHER -> "masked"

ReplaceAllNext(stage, cfg) ==
    CASE stage = "call" ->
            IF cfg.pre_translation_switch THEN "replace_before_translation"
            ELSE "strip_and_record_affixes"
      [] stage = "replace_before_translation" -> "strip_and_record_affixes"
      [] stage = "strip_and_record_affixes" ->
            IF cfg.auto_process_text_code_segment THEN "process_affixes"
            ELSE "digital_sequence_preprocessing"
      [] stage = "process_affixes" -> "replace_special_placeholders"
      [] stage = "replace_special_placeholders" -> "digital_sequence_preprocessing"
      [] OTHER -> "masked"

\* the stages of replace_all
IsStageOfReplaceAll(stage) ==
    stage \in {"replace_before_translation", "strip_and_record_affixes",
               "process_affixes", "replace_special_placeholders",
               "digital_sequence_preprocessing"}

RestoreAfterAuto(cfg) ==
    IF cfg.post_translation_switch THEN "replace_after_translation"
    ELSE "digital_sequence_recovery"

\* restore_all with the post-translation rules applied after the digital
\* sequence has been recovered
RestoreAllNextRulesLate(stage, cfg) ==
    CASE stage = "call" ->
            IF cfg.auto_process_text_code_segment THEN "restore_special_placeholders"
            ELSE "digital_sequence_recovery"
      [] stage = "restore_special_placeholders" -> "restore_affixes"
      [] stage = "restore_affixes" -> "digital_sequence_recovery"
      [] stage = "digital_sequence_recovery" ->
            IF cfg.post_translation_switch THEN "replace_after_translation"
            ELSE "restore_affix_whitespace"
      [] stage = "replace_after_translation" -> "restore_affix_whitespace"
      [] OTHER -> "restored"

RestoreAllNext(stage, cfg) ==
    CASE stage = "call" ->
            IF cfg.auto_process_text_code_segment THEN "restore_special_placeholders"
            ELSE RestoreAfterAuto(cfg)
      [] stage = "restore_special_placeholders" -> "restore_affixes"
      [] stage = "restore_affixes" -> RestoreAfterAuto(cfg)
      [] stage = "replace_after_translation" -> "digital_sequence_recovery"
      [] stage = "digital_sequence_recovery" -> "restore_affix_whitespace"
      [] OTHER -> "restored"

(***************************************************************************)
(* The inputs the model draws from.                                        *)
(***************************************************************************)
\* the texts of the pipeline are built from at most MaxPieces of SpecPieces
MaxPieces == 2

RECURSIVE ConcatsUpTo(_, _)
ConcatsUpTo(P, n) ==
    IF n = 0 THEN {<<>>}
    ELSE LET S == ConcatsUpTo(P, n - 1) IN S \cup {s \o p : s \in S, p \in P}

RECURSIVE Repeat(_, _)
Repeat(s, n) == IF n <= 0 THEN <<>> ELSE s \o Repeat(s, n - 1)

SpecPieces == {<<"a">>, <<" ">>, <<LF>>, <<"@">>, <<"1", ".">>}

SampleTexts ==
    { <<"<", "a", ":", "b", ">", "/", "/", "c">>,
      <<JLB, "1", JRB, "x">>,
      <<"@", "1", ".", "x">>,
      <<"<", "a", ":", " ", ">">>,
      <<"1", ".", " ", "H", "e", "l", "l", "o">>,
      <<"<", "b", ":", "A", ">", "<", "i", ":", "B", ">">>,
      <<"<", "b", ">", "A", "<", "/", "b", ">", "<", "i", ">", "B", "<", "/", "i", ">">>,
      <<"a", CR, LF, "b", LF, "<", "b", "r", ">", "c">> }

SpecTexts == ConcatsUpTo(SpecPieces, MaxPieces) \cup SampleTexts

Entry(k, t) == [key |-> k, value |-> t]

\* nine entries with seven maskable fragments each: more than MaxPlaceholders
KeyNames == <<"k1", "k2", "k3", "k4", "k5", "k6", "k7", "k8", "k9">>
ManyFragments == [i \in 1..Len(KeyNames) |-> Entry(KeyNames[i], <<"a">> \o Repeat(<<"@">>, 7) \o <<"a">>)]

SampleBatches ==
    { ManyFragments,
      <<Entry("k1", <<"@", "a", "@">>), Entry("k2", <<"a", "@", "1">>)>> }

Batches == {<<Entry("k1", t)>> : t \in SpecTexts} \cup SampleBatches

SourceLangs == {"en", "ja"}

LiteralRule(src, dst) == [src |-> src, dst |-> dst, regex |-> NoRegex]
RegexRule(re, dst) == [src |-> <<>>, dst |-> dst, regex |-> re]
Malformed == [kind |-> "malformed", text |-> <<>>]

PreRules == <<LiteralRule(<<"a">>, <<"b">>)>>
PostRules == <<RegexRule([kind |-> "literal", text |-> <<"b">>], <<"a">>)>>

LitPattern(c) == [kind |-> "lit", ch |-> c]
DigitsPattern == [kind |-> "digits", ch |-> ""]
MalformedPattern == [kind |-> "malformed", ch |-> ""]
NoPattern == [kind |-> "none", ch |-> ""]
StarPattern(c) == [kind |-> "star", ch |-> c]
SpacePattern == [kind |-> "space", ch |-> ""]

ExclusionRegex(p) == [regex |-> p, markers |-> ""]
ExclusionMarkers(c) == [regex |-> NoPattern, markers |-> c]

\* pre_translation_data, post_translation_data and exclusion_list_data
ConfigData ==
    { [pre |-> PreRules, post |-> PostRules, excl |-> <<>>],
      [pre |-> PreRules, post |-> PostRules, excl |-> <<ExclusionRegex(DigitsPattern)>>] }

\* the same with one malformed entry in one of the lists
MalformedConfigData ==
    { [pre |-> PreRules \o <<RegexRule(Malformed, <<>>)>>, post |-> PostRules,
       excl |-> <<>>],
      [pre |-> PreRules, post |-> <<RegexRule(Malformed, <<>>)>> \o PostRules,
       excl |-> <<>>],
      [pre |-> PreRules, post |-> PostRules,
       excl |-> <<ExclusionRegex(MalformedPattern), ExclusionMarkers("#")>>] }

Config(d, pre_sw, post_sw, auto, platform) ==
    [pre_translation_data |-> d.pre,
     post_translation_data |-> d.post,
     exclusion_list_data |-> d.excl,
     pre_translation_switch |-> pre_sw,
     post_translation_switch |-> post_sw,
     auto_process_text_code_segment |-> auto,
     target_platform |-> platform]

\* an exclusion list with a regex that also matches the empty string
EmptyMatchConfigData ==
    [pre |-> PreRules, post |-> PostRules, excl |-> <<ExclusionRegex(StarPattern("a"))>>]

Configs ==
    {Config(d, a, b, c, p) : d \in ConfigData, a \in BOOLEAN, b \in BOOLEAN,
                             c \in BOOLEAN, p \in {"sakura", "other"}}
    \cup {Config(EmptyMatchConfigData, FALSE, FALSE, c, "other") : c \in BOOLEAN}
    \cup {Config(d, TRUE, TRUE, TRUE, "other") : d \in MalformedConfigData}

\* the external pattern library ./Resource/Regex/regex.json
RegexFiles ==
    { [readable |-> TRUE, data |-> <<[regex |-> LitPattern("@")]>>],
      [readable |-> TRUE,
       data |-> <<[regex |-> LitPattern("@")], [regex |-> MalformedPattern]>>],
      [readable |-> FALSE, data |-> <<>>] }

\* what the translation backend does to a masked text: nothing, or it
\* translates the letters A and B into X and Y and keeps the sentinel lines
Translations == {"identity", "XY"}

TranslateChar(c) == IF c = "A" THEN "X" ELSE IF c = "B" THEN "Y" ELSE c

TranslateText(tr, text) ==
    LET Parts(parts) ==
            Join([i \in 1..Len(parts) |->
                    [j \in 1..Len(parts[i]) |-> TranslateChar(parts[i][j])]],
                 TAG_SEPARATOR)
    IN  IF tr = "identity" THEN text ELSE Parts(Split(text, TAG_SEPARATOR))

Translate(tr, text_dict) ==
    [i \in 1..Len(text_dict) |->
        [key |-> text_dict[i].key, value |-> TranslateText(tr, text_dict[i].value)]]

\* what comes back for a payload of parts joined by sep: the payload as it
\* was, its first part only, or the payload with one part more
PartGarblings == {"kept", "fewer", "more"}

GarbleParts(g, text, sep) ==
    IF g = "fewer" THEN Split(text, sep)[1]
    ELSE IF g = "more" THEN text \o sep \o <<"Z">>
    ELSE text

\* the texts handed to the codec methods when they are called directly are
\* built from at most MaxUnitPieces pieces
MaxUnitPieces == 3

\* one colon-tag: whitespace, <a:, whitespace, content, whitespace, >, whitespace
OuterWhitespace == {<<>>, <<" ">>, <<" ", " ">>, <<LF>>}
InnerWhitespace == {<<>>, <<" ">>}
TagContents == {<<>>, <<"b">>, <<"b", " ", "c">>}

ColonTagTexts ==
    {o1 \o <<"<", "a", ":">> \o i1 \o c \o i2 \o <<">">> \o o2 :
        o1 \in OuterWhitespace, o2 \in OuterWhitespace,
        i1 \in InnerWhitespace, i2 \in InnerWhitespace, c \in TagContents}

SingleTagTexts == ColonTagTexts \cup SampleTexts

TagPieces == {<<"<", "b", ":", "A", ">">>, <<"<", "i", ":", " ", "B", ">">>,
              <<"<", "c", ">">>, <<" ">>, <<"A">>}

\* tag-only texts with a tag that is neither a colon-tag nor a simple-tag
OddTagTexts ==
    { <<"<", ":", "a", ">", "<", "c", ">">>,
      <<"<", "c", ">", "<", ":", "a", ">">>,
      <<"<", ":", "a", ">", "<", ":", "b", ">">>,
      <<"<", "b", ":", "A", ">", "<", ":", "a", ">", "<", "c", ">">> }

MultipleTagTexts == ConcatsUpTo(TagPieces, MaxUnitPieces) \cup SampleTexts \cup OddTagTexts

LinePieces == {<<"a">>, <<CR>>, <<LF>>, <<"<", "b", "r", ">">>,
               <<"<", "B", "R", "/", ">">>, <<"<">>}

\* texts with <br />, and with elements that begin like a break element
OddBreakTexts ==
    { <<"a", "<", "b", "r", " ", "/", ">", "b">>,
      <<"<", "b", "r", "a", ">">>,
      <<"a", "<", "B", "r", "o", ">", "b">> }

LineTexts == ConcatsUpTo(LinePieces, MaxUnitPieces) \cup SampleTexts \cup OddBreakTexts

DigitPieces == {<<"1">>, <<".">>, <<" ">>, <<"H">>, <<LF>>}

DigitTexts == ConcatsUpTo(DigitPieces, MaxUnitPieces) \cup SampleTexts

DigitBatches ==
    {<<Entry("k1", t)>> : t \in DigitTexts}
    \cup {<<Entry("k1", <<"a">>), Entry("k2", <<"2", "1", ".", "b">>)>>}

\* the batches and the pattern lists (prefix list, suffix list) of the direct
\* calls of _process_affixes
AffixPieces == {<<"@">>, <<"1">>, <<"a">>, <<" ">>}

AffixTexts == ConcatsUpTo(AffixPieces, MaxUnitPieces)

AffixBatches == {<<Entry("k1", t)>> : t \in AffixTexts}

AffixPatternLists ==
    { [prefix |-> <<LitPattern("@")>>, suffix |-> <<LitPattern("@")>>],
      [prefix |-> <<LitPattern("@"), DigitsPattern>>,
       suffix |-> <<LitPattern("@"), DigitsPattern>>],
      [prefix |-> <<DigitsPattern, LitPattern("@")>>,
       suffix |-> <<DigitsPattern, LitPattern("@")>>],
      [prefix |-> <<StarPattern("a")>>, suffix |-> <<StarPattern("a")>>],
      [prefix |-> <<LitPattern("@")>>, suffix |-> <<StarPattern("a")>>],
      [prefix |-> <<SpacePattern>>, suffix |-> <<LitPattern("@")>>] }

\* the batches of two replace_all calls whose steps interleave
ConcurrentBatches ==
    { ManyFragments,
      <<Entry("k1", <<"@", "a", "@">>), Entry("k2", <<"a", "@", "1">>)>> }

\* the batches and the pattern lists of the direct calls of
\* _replace_special_placeholders; two sample texts hold a placeholder token
MaskPieces == {<<"@">>, <<"1">>, <<"a">>}

MaskTexts ==
    ConcatsUpTo(MaskPieces, MaxUnitPieces)
    \cup {<<DN, "@">>, <<"[", "P", "1", "]", "@">>}

MaskBatches ==
    {<<Entry("k1", t)>> : t \in MaskTexts}
    \cup {<<Entry("k1", <<"@", "a">>), Entry("k2", <<"1", "@">>)>>}

MaskPatternLists ==
    { <<LitPattern("@")>>,
      <<LitPattern("@"), DigitsPattern>>,
      <<DigitsPattern, LitPattern("@")>> }

\* what comes back from the translation backend for a masked text: the text
\* as it was, the text without its first character, or the text twice
Garblings == {"kept", "cut", "doubled"}

Garble(g, text) ==
    IF g = "cut" THEN Drop(text, 1)
    ELSE IF g = "doubled" THEN text \o text
    ELSE text

GarbleDict(g, text_dict) ==
    [i \in 1..Len(text_dict) |->
        [key |-> text_dict[i].key, value |-> Garble(g, text_dict[i].value)]]

\* the texts of the direct calls of _process_multiline_text
MultilinePieces == {<<KA>>, <<"1">>, <<" ">>, <<LF>>, <<"(">>}

MultilineTexts == ConcatsUpTo(MultilinePieces, MaxUnitPieces) \cup SampleTexts

(***************************************************************************)
(* The state: a processor, and one mask / translate / restore cycle on it. *)
(***************************************************************************)
VARIABLES
    pc,                         \* where the program is
    config,                     \* the configuration object
    regex_file,                 \* the external pattern library
    processor,                  \* the TextProcessor's compiled lists
    source_lang,                \* replace_all's source_lang
    text_dict,                  \* replace_all's text_dict
    processed_text,             \* replace_all's processed_text
    prefix_codes,               \* the records replace_all builds and returns
    suffix_codes,
    placeholder_order,
    affix_whitespace_storage,
    translated,                 \* restore_all's text_dict
    restored,                   \* restore_all's restored
    trace,                      \* the stages run since replace_all was entered
    aliases,                    \* the caller's objects that are the working dict
    other,                      \* a second replace_all call on the same processor
    unit_in,                    \* a direct call of one codec method: [method, arg]
    unit_out,                   \* what the forward method of the codec returned
    unit_back                   \* what the inverse method of the codec returned

vars == <<pc, config, regex_file, processor, source_lang, text_dict, processed_text,
          prefix_codes, suffix_codes, placeholder_order, affix_whitespace_storage,
          translated, restored, trace, aliases, other, unit_in, unit_out, unit_back>>

callVars == <<source_lang, text_dict, processed_text, prefix_codes, suffix_codes,
              placeholder_order, affix_whitespace_storage, translated, restored, trace,
              aliases>>

unitVars == <<unit_in, unit_out, unit_back>>

NoUnitCall == [method |-> "none", arg |-> <<>>]

\* replace_all: processed_text = {k: v for k, v in text_dict.items()} is a
\* new dict, no object of the caller
ProcessedTextAliases == {}

\* restore_all without its copy: restored is the caller's text_dict
RestoredAliasesNoCopy == {"text_dict"}

\* restore_all: restored = text_dict.copy() is a new dict
RestoredAliases == {}

\* an assignment text_dict[k] = ... in a method that works in place reaches
\* the caller's object when the working dict is that object
InPlace(name, caller_value, new_value) ==
    IF name \in aliases THEN new_value ELSE caller_value

NoOtherCall ==
    [pc |-> "idle", source_lang |-> "", text_dict |-> <<>>, processed_text |-> <<>>,
     prefix_codes |-> <<>>, suffix_codes |-> <<>>, placeholder_order |-> <<>>,
     affix_whitespace_storage |-> <<>>]

\* the local variables of a replace_all call at its entry
EntryFrame(cfg, lang, batch) ==
    [pc |-> ReplaceAllNext("call", cfg), source_lang |-> lang, text_dict |-> batch,
     processed_text |-> batch, prefix_codes |-> <<>>, suffix_codes |-> <<>>,
     placeholder_order |-> <<>>, affix_whitespace_storage |-> <<>>]

\* the stage f.pc of replace_all run on the local variables f of a call, the
\* masking stage starting its substitution counter at global_match_count
ReplaceAllStageFrom(global_match_count, cfg, procr, f) ==
    LET Ruled(d) == [f EXCEPT !.processed_text = d]
        Stripped(r) == [f EXCEPT !.processed_text = r.text_dict,
                                 !.affix_whitespace_storage = r.processing_info]
        Affixed(r) == IF r.diverged THEN [f EXCEPT !.pc = "looping"]
                      ELSE [f EXCEPT !.processed_text = r.text_dict,
                                     !.prefix_codes = r.prefix_codes,
                                     !.suffix_codes = r.suffix_codes]
        Masked(r) == [f EXCEPT !.processed_text = r.text_dict,
                               !.placeholder_order = r.placeholder_order]
        Ran(g) == IF g.pc = "looping" THEN g
                  ELSE [g EXCEPT !.pc = ReplaceAllNext(f.pc, cfg)]
    IN  Ran(CASE f.pc = "replace_before_translation" ->
                    Ruled(replace_before_translation(f.processed_text,
                              procr.pre_translation_rules_compiled))
              [] f.pc = "strip_and_record_affixes" ->
                    Stripped(strip_and_record_affixes(f.processed_text, f.source_lang))
              [] f.pc = "process_affixes" ->
                    Affixed(_process_affixes(f.processed_text,
                                procr.auto_compiled_patterns,
                                procr.auto_compiled_patterns))
              [] f.pc = "replace_special_placeholders" ->
                    Masked(MaskEntries(cfg.target_platform, f.processed_text,
                                       procr.auto_compiled_patterns, 1,
                                       global_match_count))
              [] OTHER -> Ruled(digital_sequence_preprocessing(f.processed_text)))

\* replace_all run from the frame f to its return, with no other call
RECURSIVE RunAlone(_, _, _)
RunAlone(cfg, procr, f) ==
    IF f.pc \in {"masked", "looping"} THEN f
    ELSE RunAlone(cfg, procr, ReplaceAllStageFrom(0, cfg, procr, f))

\* what replace_all(config, source_lang, text_dict) returns when it runs alone
ReplaceAllAlone(cfg, procr, lang, batch) ==
    RunAlone(cfg, procr, EntryFrame(cfg, lang, batch))

\* the number of records of a placeholder_order
RECURSIVE RecordCount(_, _)
RecordCount(order, n) ==
    IF n = 0 THEN 0 ELSE Len(order[n].value) + RecordCount(order, n - 1)

\* a stage of a replace_all call whose substitution counter is kept on the
\* processor and goes on from the records of the call in progress
ReplaceAllStageSharedCounter(cfg, procr, f) ==
    ReplaceAllStageFrom(RecordCount(placeholder_order, Len(placeholder_order)),
                        cfg, procr, f)

\* a stage of a replace_all call: global_match_count = 0 is a local variable
\* of _replace_special_placeholders
ReplaceAllStage(cfg, procr, f) == ReplaceAllStageFrom(0, cfg, procr, f)

NoProcessor ==
    [pre_translation_rules_compiled |-> <<>>, post_translation_rules_compiled |-> <<>>,
     auto_compiled_patterns |-> <<>>]

NoCall ==
    /\ source_lang' = ""
    /\ text_dict' = <<>>
    /\ processed_text' = <<>>
    /\ prefix_codes' = <<>>
    /\ suffix_codes' = <<>>
    /\ placeholder_order' = <<>>
    /\ affix_whitespace_storage' = <<>>
    /\ translated' = <<>>
    /\ restored' = <<>>
    /\ trace' = <<>>
    /\ aliases' = {}

Init ==
    /\ pc = "new"
    /\ config \in Configs
    /\ regex_file \in RegexFiles
    /\ processor = NoProcessor
    /\ source_lang = ""
    /\ text_dict = <<>>
    /\ processed_text = <<>>
    /\ prefix_codes = <<>>
    /\ suffix_codes = <<>>
    /\ placeholder_order = <<>>
    /\ affix_whitespace_storage = <<>>
    /\ translated = <<>>
    /\ restored = <<>>
    /\ trace = <<>>
    /\ aliases = {}
    /\ other = NoOtherCall
    /\ unit_in = NoUnitCall
    /\ unit_out = <<>>
    /\ unit_back = <<>>

\* TextProcessor(config)
Construct ==
    /\ pc = "new"
    /\ \E c \in {Constructed(config, regex_file)} :
          IF c.raised
          THEN pc' = "failed" /\ processor' = NoProcessor
          ELSE /\ pc' = "ready"
               /\ processor' =
                    [pre_translation_rules_compiled |-> c.pre_translation_rules_compiled,
                     post_translation_rules_compiled |-> c.post_translation_rules_compiled,
                     auto_compiled_patterns |-> c.auto_compiled_patterns]
    /\ UNCHANGED <<other, unitVars>>
    /\ UNCHANGED <<config, regex_file, callVars>>

\* replace_all(config, source_lang, text_dict): entry
ReplaceAllCall ==
    /\ pc = "ready"
    /\ \E batch \in Batches, lang \in SourceLangs :
          /\ text_dict' = batch
          /\ source_lang' = lang
          /\ processed_text' = batch
    /\ prefix_codes' = <<>>
    /\ suffix_codes' = <<>>
    /\ placeholder_order' = <<>>
    /\ affix_whitespace_storage' = <<>>
    /\ trace' = <<>>
    /\ pc' = ReplaceAllNext("call", config)
    /\ aliases' = ProcessedTextAliases
    /\ UNCHANGED <<other, unitVars>>
    /\ UNCHANGED <<config, regex_file, processor, translated, restored>>

ReplaceBeforeTranslation ==
    /\ pc = "replace_before_translation"
    /\ processed_text' =
         replace_before_translation(processed_text, processor.pre_translation_rules_compiled)
    /\ trace' = Append(trace, pc)
    /\ pc' = ReplaceAllNext(pc, config)
    /\ aliases' = {}
    /\ UNCHANGED <<other, unitVars>>
    /\ UNCHANGED <<config, regex_file, processor, source_lang, text_dict, prefix_codes,
                   suffix_codes, placeholder_order, affix_whitespace_storage, translated,
                   restored>>

StripAndRecordAffixes ==
    /\ pc = "strip_and_record_affixes"
    /\ \E r \in {strip_and_record_affixes(processed_text, source_lang)} :
          /\ processed_text' = r.text_dict
          /\ affix_whitespace_storage' = r.processing_info
    /\ trace' = Append(trace, pc)
    /\ pc' = ReplaceAllNext(pc, config)
    /\ aliases' = {}
    /\ UNCHANGED <<other, unitVars>>
    /\ UNCHANGED <<config, regex_file, processor, source_lang, text_dict, prefix_codes,
                   suffix_codes, placeholder_order, translated, restored>>

\* _process_affixes does not return when its loops diverge
ProcessAffixes ==
    /\ pc = "process_affixes"
    /\ \E r \in {_process_affixes(processed_text, processor.auto_compiled_patterns,
                                   processor.auto_compiled_patterns)} :
          IF r.diverged
          THEN /\ pc' = "looping"
               /\ UNCHANGED <<processed_text, prefix_codes, suffix_codes, trace, aliases>>
          ELSE /\ processed_text' = r.text_dict
               /\ prefix_codes' = r.prefix_codes
               /\ suffix_codes' = r.suffix_codes
               /\ trace' = Append(trace, pc)
               /\ aliases' = {}
               /\ pc' = ReplaceAllNext(pc, config)
    /\ UNCHANGED <<other, unitVars>>
    /\ UNCHANGED <<config, regex_file, processor, source_lang, text_dict,
                   placeholder_order, affix_whitespace_storage, translated, restored>>

ReplaceSpecialPlaceholders ==
    /\ pc = "replace_special_placeholders"
    /\ \E r \in {_replace_special_placeholders(config.target_platform, processed_text,
                                                processor.auto_compiled_patterns)} :
          /\ processed_text' = r.text_dict
          /\ placeholder_order' = r.placeholder_order
    /\ trace' = Append(trace, pc)
    /\ pc' = ReplaceAllNext(pc, config)
    /\ aliases' = {}
    /\ UNCHANGED <<other, unitVars>>
    /\ UNCHANGED <<config, regex_file, processor, source_lang, text_dict, prefix_codes,
                   suffix_codes, affix_whitespace_storage, translated, restored>>

\* the last stage of replace_all; the method returns processed_text and the records
DigitalSequencePreprocessing ==
    /\ pc = "digital_sequence_preprocessing"
    /\ processed_text' = digital_sequence_preprocessing(processed_text)
    /\ trace' = Append(trace, pc)
    /\ pc' = ReplaceAllNext(pc, config)
    /\ text_dict' = InPlace("text_dict", text_dict, processed_text')
    /\ UNCHANGED <<aliases, other, unitVars>>
    /\ UNCHANGED <<config, regex_file, processor, source_lang, prefix_codes,
                   suffix_codes, placeholder_order, affix_whitespace_storage, translated,
                   restored>>

\* the translation backend answers, and restore_all(config, text_dict,
\* prefix_codes, suffix_codes, placeholder_order, affix_whitespace_storage) is
\* entered with its answer and the records replace_all returned
RestoreAllCall ==
    /\ pc = "masked"
    /\ \E tr \in Translations :
          /\ translated' = Translate(tr, processed_text)
          /\ restored' = translated'
    /\ pc' = RestoreAllNext("call", config)
    /\ aliases' = RestoredAliases
    /\ other.pc = "idle"
    /\ UNCHANGED <<other, unitVars>>
    /\ UNCHANGED <<config, regex_file, processor, source_lang, text_dict, processed_text,
                   prefix_codes, suffix_codes, placeholder_order,
                   affix_whitespace_storage, trace>>

RestoreSpecialPlaceholders ==
    /\ pc = "restore_special_placeholders"
    /\ restored' = _restore_special_placeholders(restored, placeholder_order)
    /\ trace' = Append(trace, pc)
    /\ pc' = RestoreAllNext(pc, config)
    /\ aliases' = {}
    /\ UNCHANGED <<other, unitVars>>
    /\ UNCHANGED <<config, regex_file, processor, source_lang, text_dict, processed_text,
                   prefix_codes, suffix_codes, placeholder_order,
                   affix_whitespace_storage, translated>>

RestoreAffixes ==
    /\ pc = "restore_affixes"
    /\ restored' = _restore_affixes(restored, prefix_codes, suffix_codes)
    /\ trace' = Append(trace, pc)
    /\ pc' = RestoreAllNext(pc, config)
    /\ aliases' = {}
    /\ UNCHANGED <<other, unitVars>>
    /\ UNCHANGED <<config, regex_file, processor, source_lang, text_dict, processed_text,
                   prefix_codes, suffix_codes, placeholder_order,
                   affix_whitespace_storage, translated>>

ReplaceAfterTranslation ==
    /\ pc = "replace_after_translation"
    /\ restored' = replace_after_translation(restored,
                                             processor.post_translation_rules_compiled)
    /\ trace' = Append(trace, pc)
    /\ pc' = RestoreAllNext(pc, config)
    /\ aliases' = {}
    /\ UNCHANGED <<other, unitVars>>
    /\ UNCHANGED <<config, regex_file, processor, source_lang, text_dict, processed_text,
                   prefix_codes, suffix_codes, placeholder_order,
                   affix_whitespace_storage, translated>>

DigitalSequenceRecovery ==
    /\ pc = "digital_sequence_recovery"
    /\ restored' = digital_sequence_recovery(restored)
    /\ trace' = Append(trace, pc)
    /\ pc' = RestoreAllNext(pc, config)
    /\ translated' = InPlace("text_dict", translated, restored')
    /\ UNCHANGED <<aliases, other, unitVars>>
    /\ UNCHANGED <<config, regex_file, processor, source_lang, text_dict, processed_text,
                   prefix_codes, suffix_codes, placeholder_order,
                   affix_whitespace_storage>>

\* the last stage of restore_all; the method returns restored
RestoreAffixWhitespace ==
    /\ pc = "restore_affix_whitespace"
    /\ restored' = restore_affix_whitespace(affix_whitespace_storage, restored)
    /\ trace' = Append(trace, pc)
    /\ pc' = RestoreAllNext(pc, config)
    /\ aliases' = {}
    /\ UNCHANGED <<other, unitVars>>
    /\ UNCHANGED <<config, regex_file, processor, source_lang, text_dict, processed_text,
                   prefix_codes, suffix_codes, placeholder_order,
                   affix_whitespace_storage, translated>>

\* the caller drops the batch and its records; the processor serves the next batch
Discard ==
    /\ pc = "restored"
    /\ pc' = "ready"
    /\ NoCall
    /\ UNCHANGED <<other, unitVars>>
    /\ UNCHANGED <<config, regex_file, processor>>

(***************************************************************************)
(* Direct calls of the codec methods of a constructed processor.           *)
(***************************************************************************)
ProcessSingleTagContentCall ==
    /\ pc = "ready"
    /\ \E text \in SingleTagTexts :
          /\ unit_in' = [method |-> "_process_single_tag_content", arg |-> text]
          /\ unit_out' = _process_single_tag_content(text)
    /\ unit_back' = <<>>
    /\ pc' = "single_tag"
    /\ UNCHANGED <<config, regex_file, processor, callVars, other>>

ProcessMultipleTagsOnlyCall ==
    /\ pc = "ready"
    /\ \E text \in MultipleTagTexts :
          /\ unit_in' = [method |-> "_process_multiple_tags_only", arg |-> text]
          /\ unit_out' = _process_multiple_tags_only(text)
    /\ unit_back' = <<>>
    /\ pc' = "multiple_tags"
    /\ UNCHANGED <<config, regex_file, processor, callVars, other>>

\* _restore_tag_content(content, tag_info) with the payload as the translation
\* backend returned it and the record of the extraction
RestoreTagContentCall ==
    /\ pc \in {"single_tag", "multiple_tags"}
    /\ \E tr \in Translations,
          g \in IF pc = "multiple_tags" THEN PartGarblings ELSE {"kept"} :
          \E given \in {GarbleParts(g, TranslateText(tr, unit_out.text), TAG_SEPARATOR)} :
              unit_back' = [given |-> given,
                            text |-> _restore_tag_content(given, unit_out.info)]
    /\ pc' = "returned"
    /\ UNCHANGED <<unit_in, unit_out, config, regex_file, processor, callVars, other>>

NormalizeLineEndingsCall ==
    /\ pc = "ready"
    /\ \E text \in LineTexts :
          /\ unit_in' = [method |-> "_normalize_line_endings", arg |-> text]
          /\ unit_out' = _normalize_line_endings(text)
    /\ unit_back' = <<>>
    /\ pc' = "line_endings"
    /\ UNCHANGED <<config, regex_file, processor, callVars, other>>

RestoreLineEndingsCall ==
    /\ pc = "line_endings"
    /\ unit_back' = [given |-> unit_out.text,
                     text |-> _restore_line_endings(unit_out.text, unit_out.endings)]
    /\ pc' = "returned"
    /\ UNCHANGED <<unit_in, unit_out, config, regex_file, processor, callVars, other>>

DigitalSequencePreprocessingCall ==
    /\ pc = "ready"
    /\ \E batch \in DigitBatches :
          /\ unit_in' = [method |-> "digital_sequence_preprocessing", arg |-> batch]
          /\ unit_out' = digital_sequence_preprocessing(batch)
    /\ unit_back' = <<>>
    /\ pc' = "digital_sequence"
    /\ UNCHANGED <<config, regex_file, processor, callVars, other>>

DigitalSequenceRecoveryCall ==
    /\ pc = "digital_sequence"
    /\ unit_back' = [given |-> unit_out, text |-> digital_sequence_recovery(unit_out)]
    /\ pc' = "returned"
    /\ UNCHANGED <<unit_in, unit_out, config, regex_file, processor, callVars, other>>

\* _process_affixes(text_dict, compiled_prefix_patterns,
\* compiled_suffix_patterns): the call does not return when its loops diverge
ProcessAffixesCall ==
    /\ pc = "ready"
    /\ \E batch \in AffixBatches, lists \in AffixPatternLists :
          /\ unit_in' = [method |-> "_process_affixes",
                         arg |-> [text_dict |-> batch,
                                  compiled_prefix_patterns |-> lists.prefix,
                                  compiled_suffix_patterns |-> lists.suffix]]
          /\ \E r \in {_process_affixes(batch, lists.prefix, lists.suffix)} :
                IF r.diverged
                THEN unit_out' = <<>> /\ pc' = "looping"
                ELSE unit_out' = r /\ pc' = "affixes"
    /\ unit_back' = <<>>
    /\ UNCHANGED <<config, regex_file, processor, callVars, other>>

RestoreAffixesCall ==
    /\ pc = "affixes"
    /\ unit_back' = [given |-> unit_out.text_dict,
                     text |-> _restore_affixes(unit_out.text_dict, unit_out.prefix_codes,
                                               unit_out.suffix_codes)]
    /\ pc' = "returned"
    /\ UNCHANGED <<unit_in, unit_out, config, regex_file, processor, callVars, other>>

\* _replace_special_placeholders(target_platform, text_dict,
\* compiled_placeholder_patterns), the platform being the configured one
ReplaceSpecialPlaceholdersCall ==
    /\ pc = "ready"
    /\ \E batch \in MaskBatches, patterns \in MaskPatternLists :
          /\ unit_in' = [method |-> "_replace_special_placeholders",
                         arg |-> [target_platform |-> config.target_platform,
                                  text_dict |-> batch,
                                  compiled_placeholder_patterns |-> patterns]]
          /\ unit_out' = _replace_special_placeholders(config.target_platform, batch,
                                                       patterns)
    /\ unit_back' = <<>>
    /\ pc' = "placeholders"
    /\ UNCHANGED <<config, regex_file, processor, callVars, other>>

\* _restore_special_placeholders(text_dict, placeholder_order) on what the
\* translation backend returned, with the record map of the masking or with
\* a record map that holds no key
RestoreSpecialPlaceholdersCall ==
    /\ pc = "placeholders"
    /\ \E g \in Garblings, order \in {unit_out.placeholder_order, <<>>} :
          \E given \in {GarbleDict(g, unit_out.text_dict)} :
              unit_back' = [given |-> [text_dict |-> given, placeholder_order |-> order],
                            text |-> _restore_special_placeholders(given, order)]
    /\ pc' = "returned"
    /\ UNCHANGED <<unit_in, unit_out, config, regex_file, processor, callVars, other>>

ProcessMultilineTextCall ==
    /\ pc = "ready"
    /\ \E text \in MultilineTexts, lang \in SourceLangs :
          /\ unit_in' = [method |-> "_process_multiline_text",
                         arg |-> [text |-> text, source_lang |-> lang]]
          /\ unit_out' = _process_multiline_text(text, lang)
    /\ unit_back' = <<>>
    /\ pc' = "multiline"
    /\ UNCHANGED <<config, regex_file, processor, callVars, other>>

\* _restore_multiline_text(text, info) on what the translation backend
\* returned for the payload; multiline_restored is the value of its first step
RestoreMultilineTextCall ==
    /\ pc = "multiline"
    /\ \E g \in PartGarblings :
          \E given \in {GarbleParts(g, unit_out.text, <<LF>>)} :
              unit_back' = [given |-> given,
                            multiline_restored |-> MultilineRestored(given, unit_out.info),
                            text |-> _restore_multiline_text(given, unit_out.info)]
    /\ pc' = "returned"
    /\ UNCHANGED <<unit_in, unit_out, config, regex_file, processor, callVars, other>>

\* the caller drops the values of the direct call
Return ==
    /\ pc = "returned"
    /\ pc' = "ready"
    /\ unit_in' = NoUnitCall
    /\ unit_out' = <<>>
    /\ unit_back' = <<>>
    /\ UNCHANGED <<config, regex_file, processor, callVars, other>>

(***************************************************************************)
(* A second replace_all call on the same processor, from another thread,    *)
(* while the first call is in progress; its steps interleave with the      *)
(* steps of the first.                                                     *)
(***************************************************************************)
ConcurrentReplaceAllCall ==
    /\ IsStageOfReplaceAll(pc)
    /\ text_dict \in ConcurrentBatches
    /\ other.pc = "idle"
    /\ \E batch \in ConcurrentBatches, lang \in SourceLangs :
          other' = EntryFrame(config, lang, batch)
    /\ UNCHANGED <<pc, config, regex_file, processor, callVars, unitVars>>

ConcurrentReplaceAllStage ==
    /\ IsStageOfReplaceAll(other.pc)
    /\ other' = ReplaceAllStage(config, processor, other)
    /\ UNCHANGED <<pc, config, regex_file, processor, callVars, unitVars>>

\* the second call has returned and its caller drops what it returned
ConcurrentReturn ==
    /\ other.pc = "masked"
    /\ other' = NoOtherCall
    /\ UNCHANGED <<pc, config, regex_file, processor, callVars, unitVars>>

Next ==
    \/ Construct
    \/ ReplaceAllCall
    \/ ReplaceBeforeTranslation
    \/ StripAndRecordAffixes
    \/ ProcessAffixes
    \/ ReplaceSpecialPlaceholders
    \/ DigitalSequencePreprocessing
    \/ RestoreAllCall
    \/ RestoreSpecialPlaceholders
    \/ RestoreAffixes
    \/ ReplaceAfterTranslation
    \/ DigitalSequenceRecovery
    \/ RestoreAffixWhitespace
    \/ Discard
    \/ ProcessSingleTagContentCall
    \/ ProcessMultipleTagsOnlyCall
    \/ RestoreTagContentCall
    \/ NormalizeLineEndingsCall
    \/ RestoreLineEndingsCall
    \/ DigitalSequencePreprocessingCall
    \/ DigitalSequenceRecoveryCall
    \/ ProcessAffixesCall
    \/ RestoreAffixesCall
    \/ ReplaceSpecialPlaceholdersCall
    \/ RestoreSpecialPlaceholdersCall
    \/ ProcessMultilineTextCall
    \/ RestoreMultilineTextCall
    \/ Return
    \/ ConcurrentReplaceAllCall
    \/ ConcurrentReplaceAllStage
    \/ ConcurrentReturn

Spec == Init /\ [][Next]_vars

(***************************************************************************)
(* The properties.                                                         *)
(***************************************************************************)
\* both rule-substitution stages are switched off
RulesOff == ~config.pre_translation_switch /\ ~config.post_translation_switch

\* restore_all was entered with the output of replace_all as it was
Unmodified == translated = processed_text

\* C1: for every text, every source language and either value of
\* auto_process_text_code_segment, with the rule-substitution switches off,
\* restore_all applied to the unmodified output of replace_all and to the
\* records replace_all returned gives back every entry of the batch exactly.
C1_RoundTrip ==
    (pc = "restored" /\ RulesOff /\ Unmodified) => restored = text_dict

\* a text without a tag, without a match of a masking pattern of the
\* processor and without an affix that the line stage would strip
Plain(text) ==
    /\ ~Contains(text, <<"<">>)
    /\ \A i \in 1..Len(processor.auto_compiled_patterns) :
          FindIter(processor.auto_compiled_patterns[i], text, 1) = <<>>
    /\ _process_multiline_text(text, source_lang).text = text

\* C2: for every text without tag, without match of a masking pattern and
\* without structural affix, whatever characters it starts with, restore_all
\* applied to the unmodified output of replace_all gives back exactly the text.
C2_IdentityRoundTrip ==
    (/\ pc = "restored"
     /\ RulesOff
     /\ Unmodified
     /\ \A i \in 1..Len(text_dict) : Plain(text_dict[i].value))
    => restored = text_dict

\* the forward stages of C3 and the stage that undoes each
IsForwardStage(stage) ==
    stage \in {"strip_and_record_affixes", "process_affixes",
               "replace_special_placeholders", "digital_sequence_preprocessing"}
IsInverseStage(stage) ==
    stage \in {"restore_affix_whitespace", "restore_affixes",
               "restore_special_placeholders", "digital_sequence_recovery"}
InverseOf(stage) ==
    CASE stage = "strip_and_record_affixes" -> "restore_affix_whitespace"
      [] stage = "process_affixes" -> "restore_affixes"
      [] stage = "replace_special_placeholders" -> "restore_special_placeholders"
      [] stage = "digital_sequence_preprocessing" -> "digital_sequence_recovery"

Reverse(s) == [i \in 1..Len(s) |-> s[Len(s) + 1 - i]]

\* C3: restore_all undoes the forward stages in exactly the reverse of the
\* order in which replace_all applied them: digital-sequence protection first,
\* then placeholder masking, then affix stripping, and the line / whitespace /
\* tag normalization last.
C3_ReverseOrder ==
    pc = "restored" =>
        SelectSeq(trace, IsInverseStage)
            = Reverse([i \in 1..Len(SelectSeq(trace, IsForwardStage)) |->
                          InverseOf(SelectSeq(trace, IsForwardStage)[i])])

\* the stages in the order C4 gives them, replace_all's and then restore_all's
StageOrder ==
    <<"replace_before_translation", "strip_and_record_affixes", "process_affixes",
      "replace_special_placeholders", "digital_sequence_preprocessing",
      "restore_special_placeholders", "restore_affixes", "replace_after_translation",
      "digital_sequence_recovery", "restore_affix_whitespace">>

StageEnabled(stage, cfg) ==
    CASE stage = "replace_before_translation" -> cfg.pre_translation_switch
      [] stage \in {"process_affixes", "replace_special_placeholders",
                    "restore_special_placeholders", "restore_affixes"} ->
            cfg.auto_process_text_code_segment
      [] stage = "replace_after_translation" -> cfg.post_translation_switch
      [] OTHER -> TRUE

IsReplaceAllStage(stage) ==
    stage \in {"replace_before_translation", "strip_and_record_affixes", "process_affixes",
               "replace_special_placeholders", "digital_sequence_preprocessing"}

ExpectedStages(cfg) ==
    LET Enabled(stage) == StageEnabled(stage, cfg) IN SelectSeq(StageOrder, Enabled)

\* C4: in every replace_all call the enabled stages run in the order rule
\* substitution, line / whitespace / tag normalization, affix stripping,
\* placeholder masking, digital-sequence protection, and in every restore_all
\* call in the order placeholder unmasking, affix reattachment, rule
\* substitution, digital-sequence restoration, line / whitespace / tag
\* restoration; no stage runs twice, and a stage runs only when the stage
\* before it is done with the whole batch.
C4_StageOrder ==
    /\ Len(trace) <= Len(ExpectedStages(config))
    /\ trace = SubSeq(ExpectedStages(config), 1, Len(trace))
    /\ pc \in {StageOrder[i] : i \in 1..Len(StageOrder)} =>
          /\ Len(trace) < Len(ExpectedStages(config))
          /\ pc = ExpectedStages(config)[Len(trace) + 1]
    /\ pc = "masked" => trace = SelectSeq(ExpectedStages(config), IsReplaceAllStage)
    /\ pc = "restored" => trace = ExpectedStages(config)

\* a batch went through all ten stages
C4_Witness == pc = "restored" /\ Len(trace) = 10

RECURSIVE TotalRecords(_, _)
TotalRecords(order, n) ==
    IF n = 0 THEN 0 ELSE Len(order[n].value) + TotalRecords(order, n - 1)

CountOf(text, c) == Cardinality({i \in 1..Len(text) : text[i] = c})

\* C5: within one mask call the number of substitutions, over all patterns and
\* all entries of the batch, never exceeds 50; once 50 are made every further
\* match, in the rest of the entry and in every later entry of the batch, stays
\* in the text and gets no record.
C5_PlaceholderCap ==
    [][pc = "replace_special_placeholders" /\ pc' # pc =>
        /\ TotalRecords(placeholder_order', Len(placeholder_order')) <= 50
        /\ \A i \in 1..Len(processed_text) :
              TotalRecords(placeholder_order', i - 1) >= 50 =>
                  /\ processed_text'[i] = processed_text[i]
                  /\ placeholder_order'[i].value = <<>>
        /\ processor.auto_compiled_patterns = <<LitPattern("@")>> =>
              \A i \in 1..Len(processed_text) :
                  CountOf(processed_text'[i].value, "@")
                      = CountOf(processed_text[i].value, "@")
                        - Len(placeholder_order'[i].value)]_vars

\* a mask call made 50 substitutions, the last of them in an entry that keeps
\* matches, and a later entry keeps all of its matches
C5_Witness ==
    /\ pc = "digital_sequence_preprocessing"
    /\ config.auto_process_text_code_segment
    /\ TotalRecords(placeholder_order, Len(placeholder_order)) = 50
    /\ \E i \in 1..Len(placeholder_order) :
          /\ placeholder_order[i].value # <<>>
          /\ Contains(processed_text[i].value, <<"@">>)
    /\ \E i \in 1..Len(placeholder_order) :
          /\ placeholder_order[i].value = <<>>
          /\ Contains(processed_text[i].value, <<"@">>)

\* C6: for every text that is one colon-tag <name:content>, with optional
\* whitespace outside the tag and around the content, tag extraction returns
\* the trimmed content as payload and records a colon-tag, and tag restoration
\* of the unchanged payload gives back the text exactly.
C6_ColonTagRoundTrip ==
    (/\ pc \in {"single_tag", "returned"}
     /\ unit_in.method = "_process_single_tag_content"
     /\ unit_in.arg \in ColonTagTexts)
    => /\ unit_out.info.type = "single_tag"
       /\ unit_out.info.tag_type = "colon_tag"
       /\ unit_out.text = Strip(unit_out.text)
       /\ (pc = "returned" /\ unit_back.given = unit_out.text)
             => unit_back.text = unit_in.arg

HtmlPair ==
    <<"<", "b", ">", "A", "<", "/", "b", ">", "<", "i", ">", "B", "<", "/", "i", ">">>
HtmlPairXY ==
    <<"<", "b", ">", "X", "<", "/", "b", ">", "<", "i", ">", "Y", "<", "/", "i", ">">>
ColonPair == <<"<", "b", ":", "A", ">", "<", "i", ":", "B", ">">>
ColonPairXY == <<"<", "b", ":", "X", ">", "<", "i", ":", "Y", ">">>

\* C7 as claimed: <b>A</b><i>B</i> is masked to A, the sentinel line and B,
\* with a multiple_tags record, and restoring with X and Y in place of A and B
\* gives <b>X</b><i>Y</i>.
C7_HtmlPairMasked ==
    (/\ pc \in {"multiple_tags", "returned"}
     /\ unit_in.method = "_process_multiple_tags_only"
     /\ unit_in.arg = HtmlPair)
    => /\ unit_out.text = <<"A">> \o TAG_SEPARATOR \o <<"B">>
       /\ unit_out.info.type = "multiple_tags"
       /\ (pc = "returned" /\ unit_back.given = <<"X">> \o TAG_SEPARATOR \o <<"Y">>)
             => unit_back.text = HtmlPairXY

\* C7 as amended: <b:A><i:B> is masked to A, the sentinel line and B, with a
\* multiple_tags record of two colon-tags, and restoring with X and Y in place
\* of A and B gives <b:X><i:Y>; <b>A</b><i>B</i>, which has text outside its
\* tags, gets no tag record and stays as it is.
C7_ColonPairMasked ==
    (/\ pc \in {"multiple_tags", "returned"}
     /\ unit_in.method = "_process_multiple_tags_only")
    => /\ unit_in.arg = ColonPair =>
             /\ unit_out.text = <<"A">> \o TAG_SEPARATOR \o <<"B">>
             /\ unit_out.info.type = "multiple_tags"
             /\ unit_out.info.tag_count = 2
             /\ (pc = "returned" /\ unit_back.given = <<"X">> \o TAG_SEPARATOR \o <<"Y">>)
                   => unit_back.text = ColonPairXY
       /\ unit_in.arg = HtmlPair =>
             /\ unit_out.text = HtmlPair
             /\ unit_out.info = NoInfo
             /\ pc = "returned" => unit_back.text = unit_back.given

\* <b:A><i:B> was masked and then restored with X and Y
C7_Witness ==
    /\ pc = "returned"
    /\ unit_in.method = "_process_multiple_tags_only"
    /\ unit_in.arg = ColonPair
    /\ unit_back.given = <<"X">> \o TAG_SEPARATOR \o <<"Y">>
    /\ unit_back.text = ColonPairXY

\* the text begins with digits and a dot
BeginsWithOrdinal(text) ==
    \E d \in 1..Len(text) :
        /\ d + 1 <= Len(text)
        /\ \A i \in 1..d : IsDigit(text[i])
        /\ text[d + 1] = "."

\* C8: a text that begins with digits and a dot is masked by rewriting that
\* marker, once and at the very start only, to the digits in lenticular
\* brackets: '1. Hello' is masked to '【1】Hello' and restoring that gives
\* '1. Hello'; a text that does not begin so is left unchanged, also when a
\* later line begins with such a marker.
C8_DigitalSequence ==
    (/\ pc \in {"digital_sequence", "returned"}
     /\ unit_in.method = "digital_sequence_preprocessing")
    => \A i \in 1..Len(unit_in.arg) :
          /\ ~BeginsWithOrdinal(unit_in.arg[i].value) => unit_out[i] = unit_in.arg[i]
          /\ unit_in.arg[i].value = <<"1", ".", " ", "H", "e", "l", "l", "o">> =>
                /\ unit_out[i].value = <<JLB, "1", JRB, "H", "e", "l", "l", "o">>
                /\ pc = "returned" => unit_back.text[i] = unit_in.arg[i]

\* the line breaks the model's texts spell
BreakSpellings ==
    {<<CR, LF>>, <<CR>>, <<LF>>, <<"<", "b", "r", ">">>, <<"<", "b", "r", "/", ">">>,
     <<"<", "b", "r", " ", "/", ">">>}

\* the lines and the recorded markers, written one after the other
RECURSIVE Interleaved(_, _, _)
Interleaved(lines, endings, i) ==
    IF i > Len(lines) THEN <<>>
    ELSE lines[i] \o (IF i <= Len(endings) THEN endings[i].marker ELSE <<>>)
         \o Interleaved(lines, endings, i + 1)

LineExample == <<"a", CR, LF, "b", LF, "<", "b", "r", ">", "c">>

\* C9: line-ending normalization replaces each line-break marker (CR LF, CR,
\* LF, an HTML break element) by one line feed and records the markers in the
\* order they occur; restoring the unchanged normalized text with the record
\* gives back the text exactly, every marker as it was spelled and where it
\* was (a, CR LF, b, LF, <br>, c for one).
C9_LineEndingsRoundTrip ==
    (/\ pc \in {"line_endings", "returned"}
     /\ unit_in.method = "_normalize_line_endings")
    => /\ CountOf(unit_out.text, CR) = 0
       /\ Len(unit_out.endings) = CountOf(unit_out.text, LF)
       /\ \A k \in 1..Len(unit_out.endings) : unit_out.endings[k].pos = k - 1
       /\ Interleaved(Split(unit_out.text, <<LF>>), unit_out.endings, 1) = unit_in.arg
       /\ unit_in.arg = LineExample =>
             /\ unit_out.text = <<"a", LF, "b", LF, LF, "c">>
             /\ [k \in 1..Len(unit_out.endings) |-> unit_out.endings[k].marker]
                    = <<<<CR, LF>>, <<LF>>, <<"<", "b", "r", ">">>>>
       /\ pc = "returned" => unit_back.text = unit_in.arg

\* the example text, with its three spellings, was normalized and restored
C9_Witness ==
    /\ pc = "returned"
    /\ unit_in.method = "_normalize_line_endings"
    /\ unit_in.arg = LineExample
    /\ Len(unit_out.endings) = 3
    /\ unit_back.text = LineExample

\* the number of malformed patterns in the rule lists, the exclusion list and
\* the pattern library
MalformedCount ==
    Cardinality({i \in 1..Len(config.pre_translation_data) :
                    config.pre_translation_data[i].regex.kind = "malformed"})
    + Cardinality({i \in 1..Len(config.post_translation_data) :
                    config.post_translation_data[i].regex.kind = "malformed"})
    + Cardinality({i \in 1..Len(config.exclusion_list_data) :
                    config.exclusion_list_data[i].regex.kind = "malformed"})
    + Cardinality({i \in 1..Len(regex_file.data) :
                    regex_file.data[i].regex.kind = "malformed"})

WellFormed(rules_data) ==
    LET Good(rule) == rule.regex.kind # "malformed" IN SelectSeq(rules_data, Good)

\* C10: constructing a processor with one malformed pattern in a rule list,
\* the exclusion list or the pattern library succeeds; the malformed entry is
\* left out and every other rule and pattern is compiled and available.
C10_MalformedSkipped ==
    (pc # "new" /\ regex_file.readable /\ MalformedCount = 1)
    => /\ pc # "failed"
       /\ Len(processor.pre_translation_rules_compiled)
             = Len(WellFormed(config.pre_translation_data))
       /\ Len(processor.post_translation_rules_compiled)
             = Len(WellFormed(config.post_translation_data))
       /\ \E i \in 1..Len(processor.auto_compiled_patterns) :
             processor.auto_compiled_patterns[i] = LitPattern("@")

\* C11: when the external pattern library file is missing or unreadable, the
\* construction of the processor ends in an error: no processor is produced
\* (the compiled lists stay unset and no call is ever served), also when the
\* exclusion list alone would supply patterns.
C11_MissingLibraryFatal ==
    ~regex_file.readable => pc \in {"new", "failed"} /\ processor = NoProcessor

\* the construction failed on an unreadable library although the exclusion
\* list holds a well-formed pattern
C11_Witness ==
    /\ pc = "failed"
    /\ ~regex_file.readable
    /\ config.exclusion_list_data = <<ExclusionRegex(DigitsPattern)>>

\* the stage has run in the call in progress
HasRun(stage) == \E i \in 1..Len(trace) : trace[i] = stage

\* C12: replace_all and restore_all return a batch with exactly the keys of
\* the input batch, in the input's order, and so does every stage in between;
\* the line / tag records have the same keys, and with auto-processing enabled
\* so have the prefix codes, the suffix codes and the placeholder order.
C12_KeysPreserved ==
    /\ DictKeys(processed_text) = DictKeys(text_dict)
    /\ DictKeys(translated) = DictKeys(restored)
    /\ IsInverseStage(pc) \/ pc \in {"replace_after_translation", "restored"} =>
          DictKeys(restored) = DictKeys(text_dict)
    /\ HasRun("strip_and_record_affixes") =>
          DictKeys(affix_whitespace_storage) = DictKeys(text_dict)
    /\ HasRun("process_affixes") =>
          /\ DictKeys(prefix_codes) = DictKeys(text_dict)
          /\ DictKeys(suffix_codes) = DictKeys(text_dict)
    /\ HasRun("replace_special_placeholders") =>
          DictKeys(placeholder_order) = DictKeys(text_dict)
    /\ pc = "masked" /\ config.auto_process_text_code_segment =>
          /\ HasRun("process_affixes")
          /\ HasRun("replace_special_placeholders")
    /\ other.pc = "masked" =>
          /\ DictKeys(other.processed_text) = DictKeys(other.text_dict)
          /\ DictKeys(other.affix_whitespace_storage) = DictKeys(other.text_dict)
          /\ config.auto_process_text_code_segment =>
                /\ DictKeys(other.prefix_codes) = DictKeys(other.text_dict)
                /\ DictKeys(other.suffix_codes) = DictKeys(other.text_dict)
                /\ DictKeys(other.placeholder_order) = DictKeys(other.text_dict)

\* a batch of several keys, one of them past the substitution cap, went
\* through replace_all and restore_all with auto-processing enabled
C12_Witness ==
    /\ pc = "restored"
    /\ config.auto_process_text_code_segment
    /\ Len(text_dict) = Len(KeyNames)
    /\ DictKeys(restored) = KeyNames
    /\ DictKeys(placeholder_order) = KeyNames

\* what a replace_all call returns
Returned(f) ==
    <<f.processed_text, f.prefix_codes, f.suffix_codes, f.placeholder_order,
      f.affix_whitespace_storage>>

\* C13: the substitution counter, the budget of 50 and the per-key records
\* belong to one mask call: each of two replace_all calls on one processor,
\* run one after the other or with their steps interleaved, returns the
\* masked batch and the records it returns when it runs alone.
C13_CallsIndependent ==
    /\ pc = "masked" =>
          <<processed_text, prefix_codes, suffix_codes, placeholder_order,
            affix_whitespace_storage>>
          = Returned(ReplaceAllAlone(config, processor, source_lang, text_dict))
    /\ other.pc = "masked" =>
          Returned(other)
          = Returned(ReplaceAllAlone(config, processor, other.source_lang,
                                     other.text_dict))

\* both calls have returned, with numbered tokens, each with records that
\* start at [P1]; the first call used up its budget
C13_Witness ==
    /\ pc = "masked"
    /\ other.pc = "masked"
    /\ config.target_platform # "sakura"
    /\ RecordCount(placeholder_order, Len(placeholder_order)) = MaxPlaceholders
    /\ Len(placeholder_order) > 0 /\ Len(placeholder_order[1].value) > 0
    /\ Len(other.placeholder_order) > 0 /\ Len(other.placeholder_order[1].value) > 0
    /\ other.placeholder_order[1].value[1].placeholder = <<"[", "P", "1", "]">>
    /\ placeholder_order[1].value[1].placeholder = <<"[", "P", "1", "]">>

\* the stages of restore_all
IsStageOfRestoreAll(stage) ==
    stage \in {"restore_special_placeholders", "restore_affixes",
               "replace_after_translation", "digital_sequence_recovery",
               "restore_affix_whitespace"}

\* C14: no step of replace_all changes the batch the caller passed in, no
\* step of restore_all changes the translated batch or the records the caller
\* passed in, and no step of either changes the processor's compiled rule and
\* pattern lists.
C14_Frame ==
    [][ /\ IsStageOfReplaceAll(pc) => text_dict' = text_dict /\ processor' = processor
        /\ IsStageOfReplaceAll(other.pc) /\ other'.pc # "idle" =>
              other'.text_dict = other.text_dict /\ processor' = processor
        /\ IsStageOfRestoreAll(pc) =>
              /\ translated' = translated
              /\ prefix_codes' = prefix_codes
              /\ suffix_codes' = suffix_codes
              /\ placeholder_order' = placeholder_order
              /\ affix_whitespace_storage' = affix_whitespace_storage
              /\ text_dict' = text_dict
              /\ processor' = processor ]_vars

\* digital_sequence_recovery, which assigns into the dict it is given, has
\* rewritten an entry of the working dict as the first stage of restore_all
C14_Witness ==
    /\ pc = "restore_affix_whitespace"
    /\ trace[Len(trace)] = "digital_sequence_recovery"
    /\ ~config.auto_process_text_code_segment
    /\ ~config.post_translation_switch
    /\ restored # translated

\* C15: every replace_all call on a finite batch of finite strings
\* terminates, for every list of compiled masking patterns and every text:
\* no call is caught for ever in the prefix loop or the suffix loop of the
\* affix stage, also when a pattern matches the empty string.
C15_ReplaceAllTerminates ==
    /\ ~(pc = "looping" /\ unit_in = NoUnitCall)
    /\ other.pc # "looping"

\* a direct call of _process_affixes has returned
AffixesReturned == pc \in {"affixes", "returned"} /\ unit_in.method = "_process_affixes"

\* the text the prefix loops and the suffix loops leave of the text of the
\* i-th entry of the direct call, before the empty-core rule
StrippedCore(i) ==
    StripSuffixes(StripPrefixes(unit_in.arg.text_dict[i].value,
                                unit_in.arg.compiled_prefix_patterns, 1, <<>>).text,
                  unit_in.arg.compiled_suffix_patterns, 1, <<>>).text

IsBlank(text) == Len(Strip(text)) = 0

\* C18: when the affix stage returns a core for an entry and the empty-core
\* rule did not put fragments back, no prefix pattern of the list matches at
\* the start of the core and no suffix pattern of the list has a match that
\* ends at the end of the core, whatever the order of the patterns.
C18_StrippedUntilNoMatch ==
    AffixesReturned =>
        \A i \in 1..Len(unit_out.text_dict) :
            ~IsBlank(StrippedCore(i)) =>
                /\ \A k \in 1..Len(unit_in.arg.compiled_prefix_patterns) :
                      MatchLen(unit_in.arg.compiled_prefix_patterns[k],
                               unit_out.text_dict[i].value, 1) < 0
                /\ \A k \in 1..Len(unit_in.arg.compiled_suffix_patterns) :
                      BestMatch(unit_in.arg.compiled_suffix_patterns[k],
                                unit_out.text_dict[i].value) = <<>>

\* what the loops stripped from the i-th entry of the direct call: the prefix
\* records and the suffix records before the empty-core rule
StrippedPrefixes(i) ==
    StripPrefixes(unit_in.arg.text_dict[i].value,
                  unit_in.arg.compiled_prefix_patterns, 1, <<>>).codes
StrippedSuffixes(i) ==
    StripSuffixes(StripPrefixes(unit_in.arg.text_dict[i].value,
                                unit_in.arg.compiled_prefix_patterns, 1, <<>>).text,
                  unit_in.arg.compiled_suffix_patterns, 1, <<>>).codes

\* the entry the empty-core rule returns for the stripped core c, the prefix
\* records p and the suffix records q, as the claim states it
EmptyCoreRule(c, p, q) ==
    LET suffixUndone == [text |-> c \o SuffixStr(q), prefix_codes |-> p,
                         suffix_codes |-> <<>>]
        prefixUndone == [text |-> PrefixStr(p) \o c, prefix_codes |-> <<>>,
                         suffix_codes |-> q]
    IN  IF Len(p) > 0 /\ Len(q) > 0
        THEN IF Len(PrefixStr(p)) > Len(SuffixStr(q)) THEN suffixUndone ELSE prefixUndone
        ELSE IF Len(p) > 0 THEN prefixUndone
        ELSE IF Len(q) > 0 THEN suffixUndone
        ELSE [text |-> c, prefix_codes |-> p, suffix_codes |-> q]

\* the i-th entry the direct call returned
ReturnedEntry(i) ==
    [text |-> unit_out.text_dict[i].value,
     prefix_codes |-> unit_out.prefix_codes[i].value,
     suffix_codes |-> unit_out.suffix_codes[i].value]

\* the one side of an empty or whitespace-only core is undone as stated
UndoneAsStated ==
    AffixesReturned =>
        \A i \in 1..Len(unit_out.text_dict) :
            IsBlank(StrippedCore(i)) =>
                ReturnedEntry(i) = EmptyCoreRule(StrippedCore(i), StrippedPrefixes(i),
                                                 StrippedSuffixes(i))

\* every match of the pattern holds a character that is not whitespace
MatchesHoldText(pat) == pat.kind \in {"lit", "digits"}

\* C19 as stated: if affix stripping leaves an empty or whitespace-only core,
\* one side is undone (the suffix side if both sides were stripped and the
\* prefixes are longer in total, the prefix side otherwise, the one stripped
\* side if only one was), and afterwards the core is not whitespace-only
\* whenever the input text was not whitespace-only.
C19_CoreNeverBlank ==
    /\ UndoneAsStated
    /\ AffixesReturned =>
          \A i \in 1..Len(unit_out.text_dict) :
              ~IsBlank(unit_in.arg.text_dict[i].value) =>
                  ~IsBlank(unit_out.text_dict[i].value)

\* C19 (amended): one side is undone as stated; afterwards the core is not
\* empty whenever the input text was not empty, and it is not whitespace-only
\* whenever the input text was not whitespace-only and every match of every
\* pattern of the two lists holds a character that is not whitespace.
C19_EmptyCoreRule ==
    /\ UndoneAsStated
    /\ AffixesReturned =>
          \A i \in 1..Len(unit_out.text_dict) :
              /\ Len(unit_in.arg.text_dict[i].value) > 0 =>
                    Len(unit_out.text_dict[i].value) > 0
              /\ /\ ~IsBlank(unit_in.arg.text_dict[i].value)
                 /\ \A k \in 1..Len(unit_in.arg.compiled_prefix_patterns) :
                       MatchesHoldText(unit_in.arg.compiled_prefix_patterns[k])
                 /\ \A k \in 1..Len(unit_in.arg.compiled_suffix_patterns) :
                       MatchesHoldText(unit_in.arg.compiled_suffix_patterns[k])
                 => ~IsBlank(unit_out.text_dict[i].value)

\* both sides were stripped to the same total length and the core was left
\* empty: the prefix side was put back
C19_Witness ==
    /\ pc = "affixes"
    /\ unit_in.method = "_process_affixes"
    /\ IsBlank(StrippedCore(1))
    /\ Len(StrippedPrefixes(1)) > 0
    /\ Len(StrippedSuffixes(1)) > 0
    /\ Len(PrefixStr(StrippedPrefixes(1))) = Len(SuffixStr(StrippedSuffixes(1)))
    /\ unit_out.prefix_codes[1].value = <<>>
    /\ unit_out.suffix_codes[1].value = StrippedSuffixes(1)
    /\ ~IsBlank(unit_out.text_dict[1].value)

\* C20: for every entry and every pattern list, the recorded prefix fragments
\* in list order, the returned core and the recorded suffix fragments in list
\* order concatenate to the entry's input text, also after the empty-core rule
\* has undone one side; affix reattachment applied to the unchanged core
\* returns the input text.
C20_AffixesConcatenate ==
    /\ AffixesReturned =>
          \A i \in 1..Len(unit_out.text_dict) :
              PrefixStr(unit_out.prefix_codes[i].value)
              \o unit_out.text_dict[i].value
              \o SuffixStr(unit_out.suffix_codes[i].value)
              = unit_in.arg.text_dict[i].value
    /\ AffixesReturned /\ pc = "returned" => unit_back.text = unit_in.arg.text_dict

\* two fragments were recorded on one side of the core and put back
C20_Witness ==
    /\ AffixesReturned
    /\ pc = "returned"
    /\ unit_back.text = unit_in.arg.text_dict
    /\ \/ Len(unit_out.prefix_codes[1].value) = 2
       \/ Len(unit_out.suffix_codes[1].value) = 2
    /\ unit_out.text_dict[1].value = <<"a">>

\* the records of a mask call name their tokens as the claim says: numbered
\* across the entries of the batch, or ↓ repeated, counted within the entry
TokensAsStated(target_platform, order) ==
    \A i \in 1..Len(order) : \A k \in 1..Len(order[i].value) :
        order[i].value[k].placeholder =
            IF target_platform = "sakura" THEN [j \in 1..k |-> DN]
            ELSE <<"[", "P">> \o DecStr(RecordCount(order, i - 1) + k) \o <<"]">>

\* the tokens of the records of a mask call are pairwise different
TokensDiffer(order) ==
    \A i1, i2 \in 1..Len(order) :
        \A k1 \in 1..Len(order[i1].value) : \A k2 \in 1..Len(order[i2].value) :
            <<i1, k1>> # <<i2, k2>> =>
                order[i1].value[k1].placeholder # order[i2].value[k2].placeholder

\* C16: with target_platform other than 'sakura' the n-th substitution of a
\* mask call, counted over all entries of the batch from 1, is replaced by
\* [Pn], so that the tokens of a batch are pairwise different; with 'sakura'
\* the k-th substitution within an entry is replaced by ↓ repeated k times,
\* k starting at 1 again for every entry.
C16_TokenFormat ==
    /\ TokensAsStated(config.target_platform, placeholder_order)
    /\ TokensAsStated(config.target_platform, other.placeholder_order)
    /\ config.target_platform # "sakura" =>
          TokensDiffer(placeholder_order) /\ TokensDiffer(other.placeholder_order)

\* the second entry of a batch got the token [P8] after seven substitutions
\* in the first entry
C16_Witness ==
    /\ pc = "masked"
    /\ config.target_platform # "sakura"
    /\ Len(placeholder_order) = Len(KeyNames)
    /\ Len(placeholder_order[1].value) = 7
    /\ Len(placeholder_order[2].value) = 7
    /\ placeholder_order[2].value[1].placeholder = <<"[", "P", "8", "]">>
    /\ Contains(processed_text[2].value, <<"[", "P", "8", "]">>)

\* C17: with auto_process_text_code_segment false, replace_all strips no
\* affixes and masks nothing and returns empty prefix codes, suffix codes and
\* placeholder order, and restore_all unmasks nothing and reattaches nothing;
\* with pre_translation_switch (post_translation_switch) false the
\* pre-translation (post-translation) rules are applied to no text.
C17_Switches ==
    /\ ~config.auto_process_text_code_segment =>
          /\ prefix_codes = <<>> /\ suffix_codes = <<>> /\ placeholder_order = <<>>
          /\ other.prefix_codes = <<>> /\ other.suffix_codes = <<>>
          /\ other.placeholder_order = <<>>
          /\ \A stage \in {"process_affixes", "replace_special_placeholders",
                           "restore_special_placeholders", "restore_affixes"} :
                pc # stage /\ other.pc # stage /\ ~HasRun(stage)
    /\ ~config.pre_translation_switch =>
          /\ pc # "replace_before_translation" /\ other.pc # "replace_before_translation"
          /\ ~HasRun("replace_before_translation")
    /\ ~config.pre_translation_switch /\ ~config.auto_process_text_code_segment
       /\ pc = "masked" =>
          processed_text =
             digital_sequence_preprocessing(
                strip_and_record_affixes(text_dict, source_lang).text_dict)
    /\ ~config.post_translation_switch =>
          pc # "replace_after_translation" /\ ~HasRun("replace_after_translation")
    /\ ~config.post_translation_switch /\ ~config.auto_process_text_code_segment
       /\ pc = "restored" =>
          restored = restore_affix_whitespace(affix_whitespace_storage,
                                              digital_sequence_recovery(translated))

\* a text with a fragment the masking patterns match and a text the rules
\* rewrite went through both calls with the three switches off
C17_Witness ==
    /\ pc = "restored"
    /\ ~config.auto_process_text_code_segment
    /\ RulesOff
    /\ text_dict = <<Entry("k1", <<"a", "@">>)>>
    /\ restored = text_dict
    /\ Len(trace) = 4

(***************************************************************************)
(* Placeholder unmasking on a text the translation changed.                *)
(***************************************************************************)
\* a direct call of _replace_special_placeholders whose inverse has returned
UnmaskReturned ==
    /\ unit_in.method = "_replace_special_placeholders"
    /\ pc = "returned"

\* the records of a key in a record map, none when the key is not in the map
RecordsOf(order, key) ==
    IF \E j \in 1..Len(order) : order[j].key = key
    THEN order[CHOOSE j \in 1..Len(order) : order[j].key = key].value
    ELSE <<>>

\* text with the first occurrence of token replaced by original; text itself
\* when token does not occur in it
FirstReplaced(text, token, original) ==
    LET at == {i \in 1..Len(text) : HasAt(text, i, token)}
    IN  IF at = {} THEN text
        ELSE SubSeq(text, 1, Min(at) - 1) \o original
             \o SubSeq(text, Min(at) + Len(token), Len(text))

\* the records applied to text one after the other, the last record first
RECURSIVE ReplayedInReverse(_, _)
ReplayedInReverse(text, records) ==
    IF Len(records) = 0 THEN text
    ELSE ReplayedInReverse(
            FirstReplaced(text, records[Len(records)].placeholder,
                          records[Len(records)].original),
            SubSeq(records, 1, Len(records) - 1))

\* C21: placeholder unmasking returns, for every key of the translated
\* batch, the translated text with the records of the key replayed in reverse
\* arrival order, each record replacing the first remaining occurrence of its
\* token only and changing nothing when its token does not occur; a key with
\* no records, or absent from the record map, keeps its text
C21_UnmaskReplay ==
    UnmaskReturned =>
        LET given == unit_back.given.text_dict
            order == unit_back.given.placeholder_order
        IN  /\ Len(unit_back.text) = Len(given)
            /\ \A i \in 1..Len(given) :
                  /\ unit_back.text[i].key = given[i].key
                  /\ unit_back.text[i].value =
                        ReplayedInReverse(given[i].value, RecordsOf(order, given[i].key))
                  /\ RecordsOf(order, given[i].key) = <<>>
                        => unit_back.text[i].value = given[i].value

\* C21 witness: an unmasking has returned for a key with two records or more,
\* one of them with a token that the translated text does not hold, and the
\* text was changed all the same by another record
C21_Witness ==
    /\ UnmaskReturned
    /\ \E i \in 1..Len(unit_back.given.text_dict) :
          LET records == RecordsOf(unit_back.given.placeholder_order,
                                   unit_back.given.text_dict[i].key)
          IN  /\ Len(records) >= 2
              /\ \E j \in 1..Len(records) :
                    ~Contains(unit_back.given.text_dict[i].value, records[j].placeholder)
              /\ unit_back.text[i].value # unit_back.given.text_dict[i].value

(***************************************************************************)
(* Multi-tag restoration of a payload with another number of parts.        *)
(***************************************************************************)
\* a direct call of _process_multiple_tags_only that gave a record and whose
\* inverse has returned
MultipleTagsReturned ==
    /\ unit_in.method = "_process_multiple_tags_only"
    /\ pc = "returned"
    /\ unit_out.info # NoInfo

\* the i-th part of the payload split on the sentinel, empty when the payload
\* has fewer parts
PartOf(payload, i) ==
    LET parts == Split(payload, TAG_SEPARATOR)
    IN  IF i <= Len(parts) THEN parts[i] ELSE <<>>

\* a recorded tag rebuilt around its part
TagAsStated(tag_info, part) ==
    IF tag_info.tag_type = "simple_tag" THEN tag_info.full_tag
    ELSE tag_info.tag_prefix \o tag_info.content_leading_whitespace \o part
         \o tag_info.content_trailing_whitespace \o tag_info.tag_suffix

\* separators[0] + tag 0 + separators[1] + ... + tag n-1 + separators[n]
RECURSIVE InterleavedTags(_, _, _, _)
InterleavedTags(separators, tag_infos, payload, n) ==
    IF n = 0 THEN separators[1]
    ELSE InterleavedTags(separators, tag_infos, payload, n - 1)
         \o TagAsStated(tag_infos[n], PartOf(payload, n))
         \o separators[n + 1]

\* C22: for every translated payload, multi-tag restoration returns the
\* recorded separators interleaved with every recorded tag in recorded order,
\* a simple-tag verbatim and a colon-tag rebuilt around its part of the
\* payload; a part the payload does not have is the empty string and the
\* parts beyond the recorded tag count are dropped
C22_MultiTagRestoration ==
    MultipleTagsReturned =>
        /\ Len(unit_out.info.tag_infos) = unit_out.info.tag_count
        /\ Len(unit_out.info.separators) >= unit_out.info.tag_count + 1
        /\ unit_back.text =
              InterleavedTags(unit_out.info.separators, unit_out.info.tag_infos,
                              unit_back.given, unit_out.info.tag_count)

\* C22 witness: a restoration has returned for a payload with fewer parts
\* than recorded tags, the tag without a part being a colon-tag with inner
\* whitespace
C22_Witness ==
    /\ MultipleTagsReturned
    /\ Len(Split(unit_back.given, TAG_SEPARATOR)) < unit_out.info.tag_count
    /\ \E i \in 1..unit_out.info.tag_count :
          /\ i > Len(Split(unit_back.given, TAG_SEPARATOR))
          /\ unit_out.info.tag_infos[i].tag_type = "colon_tag"
          /\ unit_out.info.tag_infos[i].content_leading_whitespace # <<>>

(***************************************************************************)
(* The record of a multi-tag text.                                         *)
(***************************************************************************)
\* a direct call of _process_multiple_tags_only has given a record
MultipleTagsRecorded ==
    /\ unit_in.method = "_process_multiple_tags_only"
    /\ pc \in {"multiple_tags", "returned"}
    /\ unit_out.info # NoInfo

\* the tags found in the comment-stripped text, each in its original form
TagsFound(text) ==
    LET twc == _remove_comments(text)
        matches == TagMatches(twc)
    IN  [i \in 1..Len(matches) |-> SubSeq(twc, matches[i].start, matches[i].end)]

\* separators[0] + tag 0 + separators[1] + ... + tag n-1 + separators[n]
RECURSIVE InterleavedOriginals(_, _, _)
InterleavedOriginals(separators, tags, n) ==
    IF n = 0 THEN separators[1]
    ELSE InterleavedOriginals(separators, tags, n - 1) \o tags[n] \o separators[n + 1]

\* C26: in every multiple_tags record the tag count is the number of tags
\* found in the comment-stripped text, there are tag count + 1 separators,
\* the separators interleaved with the tags in their original form give the
\* comment-stripped text, and the restoration of the unchanged payload is the
\* comment-stripped text
C26_RecordComplete ==
    MultipleTagsRecorded =>
        LET tags == TagsFound(unit_in.arg)
            info == unit_out.info
        IN  /\ info.tag_count = Len(tags)
            /\ Len(info.separators) = info.tag_count + 1
            /\ InterleavedOriginals(info.separators, tags, info.tag_count)
                  = _remove_comments(unit_in.arg)
            /\ (pc = "returned" /\ unit_back.given = unit_out.text)
                  => unit_back.text = _remove_comments(unit_in.arg)

(***************************************************************************)
(* Line restoration of a payload with another number of lines.             *)
(***************************************************************************)
\* a direct call of _process_multiline_text whose inverse has returned
MultilineReturned ==
    /\ unit_in.method = "_process_multiline_text"
    /\ pc = "returned"

\* the number of non-empty line slots among the first i line entries
SlotsUpTo(lines_info, i) ==
    Cardinality({j \in 1..i : ~lines_info[j].is_empty})

\* the i-th restored line: the cached content of an empty line; else the
\* next translated line between the recorded affixes, or the empty string
\* when no translated line is left
LineAsStated(lines_info, translated_lines, i) ==
    IF lines_info[i].is_empty THEN lines_info[i].original_whitespace
    ELSE IF SlotsUpTo(lines_info, i) <= Len(translated_lines)
    THEN lines_info[i].prefix \o translated_lines[SlotsUpTo(lines_info, i)]
         \o lines_info[i].suffix
    ELSE <<>>

\* C23: for every translated text, the text restored before tag restoration
\* is one line per recorded line entry, the translated lines consumed in
\* order by the non-empty slots only, a slot without translated line empty
\* and the surplus translated lines dropped, with the recorded line-break
\* markers, each once and in recorded order, between consecutive lines
C23_LineRestoration ==
    MultilineReturned =>
        LET info == unit_out.info
            translated_lines == Split(unit_back.given, <<LF>>)
            lines == [i \in 1..Len(info.lines_info) |->
                        LineAsStated(info.lines_info, translated_lines, i)]
        IN  /\ Len(info.line_endings) = Len(info.lines_info) - 1
            /\ unit_back.multiline_restored = Interleaved(lines, info.line_endings, 1)

\* C23 witness: a restoration has returned for a payload with fewer lines
\* than non-empty slots, the record holding an empty line between non-empty
\* ones and line-break markers of two spellings or more
C23_Witness ==
    /\ MultilineReturned
    /\ Len(Split(unit_back.given, <<LF>>))
          < SlotsUpTo(unit_out.info.lines_info, Len(unit_out.info.lines_info))
    /\ \E i, j \in 1..Len(unit_out.info.line_endings) :
          unit_out.info.line_endings[i].marker # unit_out.info.line_endings[j].marker
    /\ \E i \in 2..(Len(unit_out.info.lines_info) - 1) :
          /\ unit_out.info.lines_info[i].is_empty
          /\ ~unit_out.info.lines_info[i - 1].is_empty
          /\ ~unit_out.info.lines_info[i + 1].is_empty

\* C23 second case: a restoration has returned for a payload with more lines
\* than non-empty slots
SurplusLinesDropped ==
    /\ MultilineReturned
    /\ Len(Split(unit_back.given, <<LF>>))
          > SlotsUpTo(unit_out.info.lines_info, Len(unit_out.info.lines_info))

(***************************************************************************)
(* The lines and the payload of the line normalizer.                       *)
(***************************************************************************)
\* a direct call of _process_multiline_text has returned its record
MultilineProcessed ==
    /\ unit_in.method = "_process_multiline_text"
    /\ pc \in {"multiline", "returned"}

\* the logical lines of a text: the lines of what the tag codec hands on,
\* with the line breaks normalized
LogicalLines(text) ==
    Split(_normalize_line_endings(_process_tag_content(text).text).text, <<LF>>)

\* the number of non-blank lines among the first i lines
NonBlankUpTo(lines, i) ==
    Cardinality({j \in 1..i : ~IsBlank(lines[j])})

\* C24: a blank or whitespace-only logical line is recorded as is_empty with
\* its exact content and adds nothing to the payload; every other line adds
\* one payload line, its core, with prefix + core + suffix the line and the
\* core not whitespace-only; so the payload has as many lines as there are
\* non-blank lines and none of them is blank
C24_LinesRecorded ==
    MultilineProcessed =>
        LET lines == LogicalLines(unit_in.arg.text)
            lines_info == unit_out.info.lines_info
            count == NonBlankUpTo(lines, Len(lines))
            payload == IF count = 0 THEN <<>> ELSE Split(unit_out.text, <<LF>>)
        IN  /\ Len(lines_info) = Len(lines)
            /\ Len(payload) = count
            /\ count = 0 => unit_out.text = <<>>
            /\ \A k \in 1..Len(payload) : ~IsBlank(payload[k])
            /\ \A i \in 1..Len(lines) :
                  IF IsBlank(lines[i])
                  THEN /\ lines_info[i].is_empty
                       /\ lines_info[i].original_whitespace = lines[i]
                  ELSE /\ ~lines_info[i].is_empty
                       /\ lines_info[i].prefix \o payload[NonBlankUpTo(lines, i)]
                             \o lines_info[i].suffix = lines[i]

\* C24 witness: a Japanese-source text has been processed that holds a
\* whitespace-only line and a non-blank line without any Japanese character,
\* whose core the boundary pattern alone leaves empty
C24_Witness ==
    /\ MultilineProcessed
    /\ unit_in.arg.source_lang = "ja"
    /\ \E i, j \in 1..Len(LogicalLines(unit_in.arg.text)) :
          LET lines == LogicalLines(unit_in.arg.text)
          IN  /\ Len(lines[i]) > 0
              /\ IsBlank(lines[i])
              /\ ~IsBlank(lines[j])
              /\ \A k \in 1..Len(lines[j]) : ~IsJapaneseChar(lines[j][k])

(***************************************************************************)
(* What line-ending normalization takes for a line-break marker.           *)
(***************************************************************************)
\* a direct call of _normalize_line_endings has returned
NormalizeReturned ==
    /\ unit_in.method = "_normalize_line_endings"
    /\ pc \in {"line_endings", "returned"}

\* CR LF, CR, LF, or <br>, <br/>, <br /> in any letter case
IsBreakMarker(m) ==
    [i \in 1..Len(m) |-> Lower(m[i])] \in BreakSpellings

\* some substring of the line is a line-break marker
HoldsBreakMarker(line) ==
    \E i \in 1..Len(line), j \in 1..Len(line) : i <= j /\ IsBreakMarker(SubSeq(line, i, j))

\* C25: every marker in the line-ending record is CR LF, CR, LF or an HTML
\* break element spelled <br>, <br/> or <br /> in any letter case; the lines
\* of the normalized text hold no such marker, and with the recorded markers
\* between them they are the text, so that everything else stays as content
C25_MarkersExactly ==
    NormalizeReturned =>
        /\ \A k \in 1..Len(unit_out.endings) : IsBreakMarker(unit_out.endings[k].marker)
        /\ \A line \in {Split(unit_out.text, <<LF>>)[k] :
                           k \in 1..Len(Split(unit_out.text, <<LF>>))} :
              ~HoldsBreakMarker(line)
        /\ Interleaved(Split(unit_out.text, <<LF>>), unit_out.endings, 1) = unit_in.arg

(***************************************************************************)
(* Placeholder masking and unmasking of the unmodified masked batch.       *)
(***************************************************************************)
\* some substring of the text is a placeholder token: [P<digits>] or a run
\* of the sakura glyph
HoldsToken(text) ==
    \/ \E i \in 1..Len(text) : text[i] = DN
    \/ \E i \in 1..Len(text) :
          /\ HasAt(text, i, <<"[", "P">>)
          /\ DigitRun(text, i + 2) > 0
          /\ HasAt(text, i + 2 + DigitRun(text, i + 2), <<"]">>)

\* the inverse of a direct masking call has returned, for the masked batch as
\* it was and the records of the masking, the source texts holding no token
UnmodifiedUnmasked ==
    /\ UnmaskReturned
    /\ unit_back.given.text_dict = unit_out.text_dict
    /\ unit_back.given.placeholder_order = unit_out.placeholder_order
    /\ \A i \in 1..Len(unit_in.arg.text_dict) : ~HoldsToken(unit_in.arg.text_dict[i].value)

\* C27: for both token formats and every pattern list, unmasking the
\* unmodified masked batch with the records of the masking returns the input
\* batch, when no source text holds a placeholder token
C27_MaskUnmaskRoundTrip ==
    UnmodifiedUnmasked => unit_back.text = unit_in.arg.text_dict

=============================================================================
